---- MODULE Spec2Model ----
(***************************************************************************)
(* Tool invocation subsystem of zyra: AIClient.queryAIWithTools scanning a *)
(* generated text for fenced tool directives, ToolRegistryImpl.execute     *)
(* validating and dispatching them, and the createFile, readFile and bash  *)
(* handlers.                                                               *)
(*                                                                         *)
(* A text is a sequence of tokens.  The fence, the keyword, the colon, the *)
(* blank and the newline are tokens of their own; a word token stands for  *)
(* a maximal run of \w characters and a payload token for a fence body     *)
(* without whitespace around it.                                           *)
(***************************************************************************)
EXTENDS Integers, Sequences, FiniteSets, TLC

(***************************************************************************)
(* Bounds of the model.                                                    *)
(***************************************************************************)
\* Largest number of segments (directive blocks or prose) of a generated text.
MaxBlocks == 2
\* Largest exit code a subprocess ends with on its own (codes are 0..MaxExitCode).
MaxExitCode == 1
\* the number of register calls made on a constructed registry
MaxRegisters == 2
\* the number of files glob hands to fileSearch
MaxFound == 3
\* the number of files glob hands to grepSearch
MaxFiles == 2
\* the number of input lines the REPL accepts
MaxTurns == 2
\* the last millisecond the clock reaches
MaxClock == 2

(***************************************************************************)
(* Tokens.                                                                 *)
(***************************************************************************)
\* the three-backquote fence
FENCE == "<fence>"
KW == "tool"
COLON == ":"
SP == " "
NL == "\n"

\* \s of the two header patterns
WS == {SP, NL}

\* Tool names appearing in texts; "nosuch" is registered nowhere.
NameTokens == {"createFile", "readFile", "bash", "nosuch"}
\* Words of prose.
ProseTokens == {"create", "file", "hello"}
\* \w+ runs: names, prose and the keyword itself.
WordTokens == NameTokens \cup ProseTokens \cup {KW}

\* Fence bodies: JSON texts of objects, one text that is no JSON, and the JSON
\* texts null, 5, "hi", true and [].
PayloadTokens ==
  {"pCreate", "pRead", "pLs", "pHalt", "pNum", "pBad", "pNull", "pFive", "pStr", "pTrue",
   "pArr"}

Min(S) == CHOOSE x \in S : \A y \in S : x <= y
Max(S) == CHOOSE x \in S : \A y \in S : y <= x

(***************************************************************************)
(* Strings of the payloads.  A string is an atom; Chars gives the          *)
(* characters of the ones whose characters the code inspects.              *)
(***************************************************************************)
StrLen(s) ==
  CASE s = "" -> 0
    [] s = "hi" -> 2
    [] s = "out" -> 3
    [] s = "err" -> 3
    [] OTHER -> 5

Chars(s) ==
  CASE s = "ls" -> <<"l", "s">>
    [] s = "HaLt" -> <<"H", "a", "L", "t">>
    [] OTHER -> <<>>

UpperLetters == <<"A", "B", "C", "D", "E", "F", "G", "H", "I", "J", "K", "L", "M",
                  "N", "O", "P", "Q", "R", "S", "T", "U", "V", "W", "X", "Y", "Z">>
LowerLetters == <<"a", "b", "c", "d", "e", "f", "g", "h", "i", "j", "k", "l", "m",
                  "n", "o", "p", "q", "r", "s", "t", "u", "v", "w", "x", "y", "z">>

\* String.prototype.toLowerCase, character by character
toLowerCase(cs) ==
  [k \in 1..Len(cs) |->
     IF \E i \in 1..26 : UpperLetters[i] = cs[k]
       THEN LowerLetters[CHOOSE i \in 1..26 : UpperLetters[i] = cs[k]]
       ELSE cs[k]]

\* String.prototype.toUpperCase, character by character
toUpperCase(cs) ==
  [k \in 1..Len(cs) |->
     IF \E i \in 1..26 : LowerLetters[i] = cs[k]
       THEN UpperLetters[CHOOSE i \in 1..26 : LowerLetters[i] = cs[k]]
       ELSE cs[k]]

\* String.prototype.includes
includes(cs, sub) ==
  \E off \in 0..(Len(cs) - Len(sub)) : \A k \in 1..Len(sub) : cs[off + k] = sub[k]

\* String.prototype.startsWith
startsWith(cs, sub) ==
  Len(sub) <= Len(cs) /\ \A k \in 1..Len(sub) : cs[k] = sub[k]

(***************************************************************************)
(* The two header patterns of queryAIWithTools and RegExp.prototype.exec.  *)
(*   pattern 1:  fence tool:(\w+)\s*\n([\s\S]*?)\n fence                   *)
(*   pattern 2:  fence tool\s+(\w+)\s*\n([\s\S]*?)\n fence                 *)
(***************************************************************************)
\* the pattern list with the whitespace form tried first
toolCallPatterns_SpaceFirst == <<"space", "colon">>

toolCallPatterns == <<"colon", "space">>

\* The last position of the longest run of tokens of S that starts at i (i - 1 if none).
RunEnd(t, i, S) ==
  Max({j \in (i - 1)..Len(t) : \A k \in i..j : t[k] \in S})

NoMatch == [found |-> FALSE, index |-> 0, name |-> <<>>, body |-> <<>>, end |-> 0]

\* MatchAt with the body of the space pattern greedy instead of lazy
MatchAt_GreedySpace(t, pat, i) ==
  IF /\ i + 2 <= Len(t)
     /\ t[i] = FENCE
     /\ t[i + 1] = KW
     /\ (toolCallPatterns[pat] = "colon" => t[i + 2] = COLON)
     /\ (toolCallPatterns[pat] = "space" => t[i + 2] \in WS)
  THEN
    LET nameStart == IF toolCallPatterns[pat] = "colon"
                       THEN i + 3
                       ELSE RunEnd(t, i + 2, WS) + 1
        nameEnd == RunEnd(t, nameStart, WordTokens)
        wsEnd == RunEnd(t, nameEnd + 1, WS)
        Closers(q) == {e \in (q + 1)..(Len(t) - 1) : t[e] = NL /\ t[e + 1] = FENCE}
        qs == {q \in (nameEnd + 1)..wsEnd : t[q] = NL /\ Closers(q) # {}}
    IN IF nameEnd >= nameStart /\ qs # {}
         THEN LET q == Max(qs)
                  e == IF toolCallPatterns[pat] = "space"
                         THEN Max(Closers(q)) ELSE Min(Closers(q))
              IN [found |-> TRUE, index |-> i,
                  name |-> SubSeq(t, nameStart, nameEnd),
                  body |-> SubSeq(t, q + 1, e - 1),
                  end |-> e + 1]
         ELSE NoMatch
  ELSE NoMatch

\* MatchAt with the separator of the space pattern accepting the colon as well
MatchAt_SeparatorEither(t, pat, i) ==
  IF /\ i + 2 <= Len(t)
     /\ t[i] = FENCE
     /\ t[i + 1] = KW
     /\ (toolCallPatterns[pat] = "colon" => t[i + 2] = COLON)
     /\ (toolCallPatterns[pat] = "space" => t[i + 2] \in WS \cup {COLON})
  THEN
    LET nameStart == IF toolCallPatterns[pat] = "colon"
                       THEN i + 3
                       ELSE RunEnd(t, i + 2, WS \cup {COLON}) + 1
        nameEnd == RunEnd(t, nameStart, WordTokens)
        wsEnd == RunEnd(t, nameEnd + 1, WS)
        Closers(q) == {e \in (q + 1)..(Len(t) - 1) : t[e] = NL /\ t[e + 1] = FENCE}
        qs == {q \in (nameEnd + 1)..wsEnd : t[q] = NL /\ Closers(q) # {}}
    IN IF nameEnd >= nameStart /\ qs # {}
         THEN LET q == Max(qs)
                  e == Min(Closers(q))
              IN [found |-> TRUE, index |-> i,
                  name |-> SubSeq(t, nameStart, nameEnd),
                  body |-> SubSeq(t, q + 1, e - 1),
                  end |-> e + 1]
         ELSE NoMatch
  ELSE NoMatch

\* The match of pattern pat that starts exactly at position i, as the backtracking
\* matcher finds it: \w+ and \s* greedy, the body lazy.
MatchAt(t, pat, i) ==
  IF /\ i + 2 <= Len(t)
     /\ t[i] = FENCE
     /\ t[i + 1] = KW
     /\ (toolCallPatterns[pat] = "colon" => t[i + 2] = COLON)
     /\ (toolCallPatterns[pat] = "space" => t[i + 2] \in WS)
  THEN
    LET nameStart == IF toolCallPatterns[pat] = "colon"
                       THEN i + 3
                       ELSE RunEnd(t, i + 2, WS) + 1
        nameEnd == RunEnd(t, nameStart, WordTokens)
        wsEnd == RunEnd(t, nameEnd + 1, WS)
        Closers(q) == {e \in (q + 1)..(Len(t) - 1) : t[e] = NL /\ t[e + 1] = FENCE}
        qs == {q \in (nameEnd + 1)..wsEnd : t[q] = NL /\ Closers(q) # {}}
    IN IF nameEnd >= nameStart /\ qs # {}
         THEN LET q == Max(qs)
                  e == Min(Closers(q))
              IN [found |-> TRUE, index |-> i,
                  name |-> SubSeq(t, nameStart, nameEnd),
                  body |-> SubSeq(t, q + 1, e - 1),
                  end |-> e + 1]
         ELSE NoMatch
  ELSE NoMatch

\* pattern.exec(response) with pattern.lastIndex = from - 1: the leftmost match
\* starting at or after position from.
Exec(t, pat, from) ==
  LET starts == {i \in from..Len(t) : MatchAt(t, pat, i).found}
  IN IF starts = {} THEN NoMatch ELSE MatchAt(t, pat, Min(starts))

\* String.prototype.trim on a fence body
Trim(s) ==
  LET idx == {k \in 1..Len(s) : s[k] \notin WS}
  IN IF idx = {} THEN <<>> ELSE SubSeq(s, Min(idx), Max(idx))

(***************************************************************************)
(* JSON.parse.  A decoded value is [kind, s, n]; an object is a function   *)
(* from keys to values.                                                    *)
(***************************************************************************)
Str(s) == [kind |-> "string", s |-> s, n |-> 0]
Num(n) == [kind |-> "number", s |-> "", n |-> n]
Bool(b) == [kind |-> "boolean", s |-> IF b THEN "true" ELSE "false", n |-> 0]
Arr(s) == [kind |-> "array", s |-> s, n |-> 0]
Obj(s) == [kind |-> "object", s |-> s, n |-> 0]
Null == [kind |-> "null", s |-> "", n |-> 0]
undefined == [kind |-> "undefined", s |-> "", n |-> 0]

\* a decoded value that is an object with keys
IsObject(input) == "kind" \notin DOMAIN input

\* null, a number, a string or a boolean: the in operator throws a TypeError on it
IsPrimitive(input) == ~IsObject(input) /\ input.kind \notin {"array", "object"}

\* the properties the in operator finds by name: an array has indices and length,
\* none of which is the name of a parameter of a tool
Props(input) == IF IsObject(input) THEN input ELSE <<>>

\* typeof value
typeof(value) ==
  CASE value.kind \in {"string", "number", "boolean", "undefined"} -> value.kind
    [] value.kind \in {"array", "object", "null"} -> "object"

JsonTexts ==
  {"pCreate", "pRead", "pLs", "pHalt", "pNum", "pNull", "pFive", "pStr", "pTrue", "pArr"}

\* does JSON.parse(str) return (TRUE) or throw a SyntaxError (FALSE)
JsonParses(str) == Len(str) = 1 /\ str[1] \in JsonTexts

JsonParse(str) ==
  CASE str[1] = "pCreate" -> [path |-> Str("a.txt"), content |-> Str("hi")]
    [] str[1] = "pRead" -> [path |-> Str("a.txt")]
    [] str[1] = "pLs" -> [command |-> Str("ls")]
    [] str[1] = "pHalt" -> [command |-> Str("HaLt")]
    [] str[1] = "pNum" -> [command |-> Num(5)]
    [] str[1] = "pNull" -> Null
    [] str[1] = "pFive" -> Num(5)
    [] str[1] = "pStr" -> Str("hi")
    [] str[1] = "pTrue" -> Bool(TRUE)
    [] str[1] = "pArr" -> Arr("")

(***************************************************************************)
(* Tool descriptors (name and parameters) and the registry.                *)
(***************************************************************************)
Param(name, type, required) ==
  [name |-> name, type |-> type, required |-> required, default |-> undefined]

\* an optional parameter that declares a default
Optional(name, type, default) ==
  [name |-> name, type |-> type, required |-> FALSE, default |-> default]

\* execute names the handler the descriptor carries
listDirTool ==
  [name |-> "listDir", description |-> "List files and directories at the given path",
   parameters |-> <<Param("path", "string", TRUE)>>,
   execute |-> "listDir"]

readFileTool ==
  [name |-> "readFile", description |-> "Read the contents of a file with metadata",
   parameters |-> <<Param("path", "string", TRUE),
                    Optional("encoding", "string", Str("utf8"))>>,
   execute |-> "readFile"]

editFileTool ==
  [name |-> "editFile",
   description |-> "Edit or create a file with new content and optional backup",
   parameters |-> <<Param("path", "string", TRUE), Param("content", "string", TRUE),
                    Optional("backup", "boolean", Bool(TRUE))>>,
   execute |-> "editFile"]

deleteFileTool ==
  [name |-> "deleteFile", description |-> "Delete a file (irreversible operation)",
   parameters |-> <<Param("path", "string", TRUE)>>,
   execute |-> "deleteFile"]

createFileTool ==
  [name |-> "createFile",
   description |-> "Create a new file with optional content (won't overwrite existing)",
   parameters |-> <<Param("path", "string", TRUE), Optional("content", "string", Str(""))>>,
   execute |-> "createFile"]

fileSearchTool ==
  [name |-> "fileSearch", description |-> "Search for files by name using fuzzy matching",
   parameters |-> <<Param("query", "string", TRUE),
                    Optional("directory", "string", Str(".")),
                    Optional("maxResults", "number", Num(10))>>,
   execute |-> "fileSearch"]

grepSearchTool ==
  [name |-> "grepSearch", description |-> "Search for text patterns in files using regex",
   parameters |-> <<Param("pattern", "string", TRUE),
                    Optional("directory", "string", Str(".")),
                    Param("fileTypes", "array", FALSE),
                    Optional("caseSensitive", "boolean", Bool(FALSE)),
                    Optional("maxResults", "number", Num(50))>>,
   execute |-> "grepSearch"]

\* the default of cwd is process.cwd(), written "." here
bashTool ==
  [name |-> "bash", description |-> "Execute bash commands in a secure environment",
   parameters |-> <<Param("command", "string", TRUE),
                    Optional("timeout", "number", Num(120)),
                    Optional("cwd", "string", Str("."))>>,
   execute |-> "bash"]

\* the registry's map after construction: the built-in tools in the order
\* loadBuiltInTools registers them
tools ==
  <<listDirTool, readFileTool, editFileTool, deleteFileTool, createFileTool,
    fileSearchTool, grepSearchTool, bashTool>>

\* a tool name is the \w+ run of the header: the registered names are single words
Registered(name) == Len(name) = 1 /\ \E k \in 1..Len(tools) : tools[k].name = name[1]

get(name) == tools[CHOOSE k \in 1..Len(tools) : tools[k].name = name[1]]

validateParameterType(value, expectedType) ==
  CASE expectedType = "string" -> value.kind = "string"
    [] expectedType = "number" -> value.kind = "number"
    [] expectedType = "boolean" -> value.kind = "boolean"
    [] expectedType = "array" -> value.kind = "array"
    [] expectedType = "object" -> value.kind = "object"
    [] OTHER -> FALSE

\* ParamError with every declared parameter treated as required
ParamError_AllRequired(param, input) ==
  IF param.name \notin DOMAIN input
    THEN "Required parameter is missing"
    ELSE IF ~validateParameterType(input[param.name], param.type)
           THEN "Parameter has invalid type"
           ELSE ""

\* the error of one parameter, "" if it passes
ParamError(param, input) ==
  IF param.required /\ param.name \notin DOMAIN input
    THEN "Required parameter is missing"
    ELSE IF param.name \in DOMAIN input
              /\ ~validateParameterType(input[param.name], param.type)
           THEN "Parameter has invalid type"
           ELSE ""

\* expected and got are the kinds the type error interpolates: param.type and
\* typeof value
validateInput(tool, input) ==
  LET bad == {k \in 1..Len(tool.parameters) : ParamError(tool.parameters[k], input) # ""}
  IN IF bad = {}
       THEN [valid |-> TRUE, error |-> "", param |-> "", expected |-> "", got |-> ""]
       ELSE LET param == tool.parameters[Min(bad)]
                typeError == ParamError(param, input) = "Parameter has invalid type"
            IN [valid |-> FALSE,
                error |-> ParamError(param, input),
                param |-> param.name,
                expected |-> IF typeError THEN param.type ELSE "",
                got |-> IF typeError THEN typeof(input[param.name]) ELSE ""]

(***************************************************************************)
(* ToolOutput.  error = "" stands for an absent error and NoData for an    *)
(* absent data.                                                            *)
(***************************************************************************)
NoData == [undefined |-> TRUE]

Failure(error) == [success |-> FALSE, error |-> error, data |-> NoData]

(***************************************************************************)
(* The filesystem: one entry per path.                                     *)
(***************************************************************************)
Paths == {"a.txt", "a.txt.backup"}
Absent == [type |-> "none", content |-> ""]
File(content) == [type |-> "file", content |-> content]
Directory == [type |-> "directory", content |-> ""]

\* createFile without the existence check
createFile_Overwrites(input, fs) ==
  LET filePath == input.path.s
      content == IF "content" \in DOMAIN input THEN input.content.s ELSE ""
  IN [result |-> [success |-> TRUE, error |-> "",
                  data |-> [path |-> filePath, size |-> StrLen(content)]],
      fs |-> [fs EXCEPT ![filePath] = File(content)]]

\* createFileTool.execute: the result and the filesystem it leaves
createFile(input, fs) ==
  LET filePath == input.path.s
      content == IF "content" \in DOMAIN input /\ input.content.s # ""
                   THEN input.content.s ELSE ""
  IN IF fs[filePath].type # "none"
       THEN [result |-> Failure("File already exists"), fs |-> fs]
       ELSE [result |-> [success |-> TRUE, error |-> "",
                         data |-> [path |-> filePath, size |-> StrLen(content)]],
             fs |-> [fs EXCEPT ![filePath] = File(content)]]

\* readFileTool.execute
readFile(input, fs) ==
  LET filePath == input.path.s
  IN IF fs[filePath].type = "none"
       THEN Failure("File does not exist")
       ELSE IF fs[filePath].type # "file"
              THEN Failure("Path is not a file")
              ELSE [success |-> TRUE, error |-> "",
                    data |-> [path |-> filePath, content |-> fs[filePath].content,
                              size |-> StrLen(fs[filePath].content)]]

(***************************************************************************)
(* bashTool: the denylist check that precedes the spawn.                   *)
(***************************************************************************)
bannedCommands ==
  << <<"r", "m", " ", "-", "r", "f", " ", "/">>,
     <<"r", "m", " ", "-", "r", "f", " ", "/", "*">>,
     <<"d", "d", " ", "i", "f", "=", "/", "d", "e", "v", "/", "z", "e", "r", "o">>,
     <<"m", "k", "f", "s">>,
     <<"f", "d", "i", "s", "k">>,
     <<"f", "o", "r", "m", "a", "t">>,
     <<"s", "h", "u", "t", "d", "o", "w", "n">>,
     <<"r", "e", "b", "o", "o", "t">>,
     <<"h", "a", "l", "t">>,
     <<"p", "o", "w", "e", "r", "o", "f", "f">> >>

\* lowerCommand with the command compared as written
lowerCommand_AsWritten(command) == Chars(command)

\* const lowerCommand = command.toLowerCase()
lowerCommand(command) == toLowerCase(Chars(command))

\* the for loop over bannedCommands returns the security failure
Blocked(command) ==
  \E b \in 1..Len(bannedCommands) : includes(lowerCommand(command), bannedCommands[b])

\* exit code of a child ended by a signal (code === null)
NullCode == 0 - 1
ExitCodes == 0..MaxExitCode

\* the closure of one bash call: stdout, stderr, killed and the timeout timer
NoShell == [stdout |-> "", stderr |-> "", killed |-> FALSE, timer |-> "none", command |-> ""]
\* the processes of one bash call: the child, whether SIGTERM was delivered to it,
\* whether it ignores SIGTERM, how it ended, and a descendant that outlives it
NoProcess == [child |-> "none", exitCode |-> NullCode, sigterm |-> FALSE,
              ignoresTerm |-> FALSE, endedBy |-> "none", orphan |-> "none"]

\* closeResult with the error text built whatever the exit code is
closeResult_ErrorAlways(shell, code) ==
  IF shell.killed
    THEN Failure("Command timed out")
    ELSE [success |-> (code = 0),
          error |-> "Command failed with exit code",
          data |-> [stdout |-> shell.stdout, stderr |-> shell.stderr,
                    exitCode |-> code, command |-> shell.command]]

\* the value the close listener resolves the promise with
closeResult(shell, code) ==
  IF shell.killed
    THEN Failure("Command timed out")
    ELSE [success |-> (code = 0),
          error |-> IF code # 0 THEN "Command failed with exit code" ELSE "",
          data |-> [stdout |-> shell.stdout, stderr |-> shell.stderr,
                    exitCode |-> code, command |-> shell.command]]

(***************************************************************************)
(* The handlers of the other built-in tools, as functions of the input and *)
(* the filesystem.  "." is the working directory, which holds Paths.       *)
(***************************************************************************)
existsSync(fs, p) == p = "." \/ (p \in DOMAIN fs /\ fs[p].type # "none")
isDirectory(fs, p) == p = "." \/ (p \in DOMAIN fs /\ fs[p].type = "directory")
isFile(fs, p) == p \in DOMAIN fs /\ fs[p].type = "file"

Success(data) == [success |-> TRUE, error |-> "", data |-> data]

\* value || fallback for a string or number parameter: absent, "" and 0 are falsy
OrElse(input, key, fallback) ==
  IF key \in DOMAIN input /\ input[key] \notin {Str(""), Num(0), Null, Bool(FALSE)}
    THEN input[key] ELSE fallback

\* input[key] !== false
NotFalse(input, key) == ~(key \in DOMAIN input /\ input[key] = Bool(FALSE))

\* listDirTool.execute
listDir(input, fs) ==
  LET dirPath == input.path.s
  IN IF ~existsSync(fs, dirPath) THEN Failure("Directory does not exist")
     ELSE IF ~isDirectory(fs, dirPath) THEN Failure("Path is not a directory")
     ELSE Success([path |-> dirPath,
                   items |-> IF dirPath = "." THEN {p \in Paths : fs[p].type # "none"}
                             ELSE {}])

\* editFile with the copy made after the write
editFile_BackupAfterWrite(input, fs) ==
  LET filePath == input.path.s
      content == input.content.s
      copies == existsSync(fs, filePath) /\ NotFalse(input, "backup")
      written == [fs EXCEPT ![filePath] = File(content)]
  IN IF isDirectory(fs, filePath)
       THEN [result |-> Failure("Error editing file"), fs |-> fs]
       ELSE [result |-> Success([path |-> filePath, size |-> StrLen(content)]),
             fs |-> IF copies THEN [written EXCEPT !["a.txt.backup"] = written[filePath]]
                    ELSE written]

\* editFileTool.execute: copyFileSync and writeFileSync throw on a directory
editFile(input, fs) ==
  LET filePath == input.path.s
      content == input.content.s
      backup == NotFalse(input, "backup")
      copies == existsSync(fs, filePath) /\ backup
      backedUp == IF copies /\ isFile(fs, filePath)
                    THEN [fs EXCEPT !["a.txt.backup"] = fs[filePath]] ELSE fs
  IN IF isDirectory(fs, filePath)
       THEN [result |-> Failure("Error editing file"), fs |-> fs]
       ELSE [result |-> Success([path |-> filePath, size |-> StrLen(content)]),
             fs |-> [backedUp EXCEPT ![filePath] = File(content)]]

\* deleteFile without the check that the path is a regular file
deleteFile_Unchecked(input, fs) ==
  LET filePath == input.path.s
  IN IF ~existsSync(fs, filePath)
       THEN [result |-> Failure("File does not exist"), fs |-> fs]
       ELSE [result |-> Success([path |-> filePath, deleted |-> TRUE]),
             fs |-> [fs EXCEPT ![filePath] = Absent]]

\* deleteFileTool.execute
deleteFile(input, fs) ==
  LET filePath == input.path.s
  IN IF ~existsSync(fs, filePath)
       THEN [result |-> Failure("File does not exist"), fs |-> fs]
     ELSE IF ~isFile(fs, filePath)
       THEN [result |-> Failure("Path is not a file"), fs |-> fs]
     ELSE [result |-> Success([path |-> filePath, deleted |-> TRUE]),
           fs |-> [fs EXCEPT ![filePath] = Absent]]

\* the files glob finds under a directory (nodir: true)
globFiles(fs, dir) == IF dir = "." THEN {p \in Paths : fs[p].type = "file"} ELSE {}

\* the file name contains the query
nameHas(p, query) ==
  CASE query = "a" -> TRUE
    [] query = "backup" -> p = "a.txt.backup"
    [] OTHER -> FALSE

\* fileSearchTool.execute: the matches are cut to maxResults
fileSearch(input, fs) ==
  LET query == input.query.s
      directory == OrElse(input, "directory", Str(".")).s
      maxResults == OrElse(input, "maxResults", Num(10)).n
      found == {p \in globFiles(fs, directory) : nameHas(p, query)}
  IN IF ~existsSync(fs, directory) THEN Failure("Directory does not exist")
     ELSE Success([query |-> query, directory |-> directory,
                   shown |-> Min({Cardinality(found), maxResults}),
                   total |-> Cardinality(found)])

\* new RegExp(pattern, caseSensitive ? 'g' : 'gi') matches a line of the content
lineMatches(pattern, content, caseSensitive) ==
  /\ content # ""
  /\ \/ pattern = content
     \/ ~caseSensitive /\ pattern = "HI" /\ content = "hi"

\* grepSearchTool.execute
grepSearch(input, fs) ==
  LET pattern == input.pattern.s
      directory == OrElse(input, "directory", Str(".")).s
      caseSensitive == NotFalse(input, "caseSensitive")
      maxResults == OrElse(input, "maxResults", Num(50)).n
      found == {p \in globFiles(fs, directory) :
                  lineMatches(pattern, fs[p].content, caseSensitive)}
  IN IF ~existsSync(fs, directory) THEN Failure("Directory does not exist")
     ELSE Success([pattern |-> pattern, directory |-> directory,
                   total |-> Min({Cardinality(found), maxResults})])

(***************************************************************************)
(* fileSearch in detail: glob, calculateRelevance, sort and slice, on      *)
(* basenames given character by character.  The files are those of a       *)
(* subdirectory src of the directory searched.                             *)
(***************************************************************************)
Names ==
  { <<"m", "a", "i", "n">>,
    <<"m", "a", "i", "n", ".", "t", "s">>,
    <<"d", "o", "m", "a", "i", "n", ".", "t", "s">>,
    <<"r", "e", "m", "a", "i", "n", "d", "e", "r", ".", "t", "x", "t">>,
    <<"M", "a", "i", "n">>,
    <<"M", "a", "i", "n", ".", "t", "s">>,
    <<"x", "M", "a", "i", "n">>,
    <<"m", "a", "p", ".", "c">>,
    <<"m", "a", "c", ".", "c">> }

Queries ==
  { <<"m", "a", "i", "n">>, <<"M", "a", "i", "n">>, <<"c", "/", "m", "a">> }

\* the part of the query after its last "/" (the whole query if it has none)
lastSegment(query) ==
  LET slashes == {k \in 1..Len(query) : query[k] = "/"}
  IN IF slashes = {} THEN query ELSE SubSeq(query, Max(slashes) + 1, Len(query))

\* glob('**/*' + query + '*') on a file of src: a query without "/" must occur in
\* the basename; of a query d/n the d must end the directory name and n begin the
\* basename.  The match is case-sensitive.
globMatch(name, query) ==
  IF \E k \in 1..Len(query) : query[k] = "/"
    THEN LET d == SubSeq(query, 1, Len(query) - Len(lastSegment(query)) - 1)
             src == <<"s", "r", "c">>
         IN /\ Len(d) <= Len(src)
            /\ SubSeq(src, Len(src) - Len(d) + 1, Len(src)) = d
            /\ startsWith(name, lastSegment(query))
    ELSE includes(name, query)

\* calculateRelevance with only the query folded to lower case
calculateRelevance_QueryFolded(filename, query) ==
  LET lowerFilename == filename
      lowerQuery == toLowerCase(query)
  IN IF lowerFilename = lowerQuery THEN 100
     ELSE IF startsWith(lowerFilename, lowerQuery) THEN 80
     ELSE IF includes(lowerFilename, lowerQuery) THEN 60
     ELSE Min({40, 10 * Cardinality({k \in 1..Len(lowerQuery) :
                                      includes(lowerFilename, <<lowerQuery[k]>>)})})

calculateRelevance(filename, query) ==
  LET lowerFilename == toLowerCase(filename)
      lowerQuery == toLowerCase(query)
  IN IF lowerFilename = lowerQuery THEN 100
     ELSE IF startsWith(lowerFilename, lowerQuery) THEN 80
     ELSE IF includes(lowerFilename, lowerQuery) THEN 60
     ELSE Min({40, 10 * Cardinality({k \in 1..Len(lowerQuery) :
                                      includes(lowerFilename, <<lowerQuery[k]>>)})})

\* Array.prototype.sort with (a, b) => b.relevance - a.relevance: the sort is
\* stable, an element goes behind the ones that compare equal to it
RECURSIVE sortByRelevance(_)
sortByRelevance(s) ==
  IF s = <<>> THEN <<>>
  ELSE LET x == s[Len(s)]
           t == sortByRelevance(SubSeq(s, 1, Len(s) - 1))
           k == Cardinality({i \in 1..Len(t) : t[i].relevance >= x.relevance})
       IN SubSeq(t, 1, k) \o <<x>> \o SubSeq(t, k + 1, Len(t))

\* lines 54-62: map, sort, slice
sortedFiles(files, query, maxResults) ==
  LET mapped == [k \in 1..Len(files) |->
                   [name |-> files[k],
                    relevance |-> calculateRelevance(files[k], query)]]
      sorted == sortByRelevance(mapped)
  IN SubSeq(sorted, 1, Min({maxResults, Len(sorted)}))

(***************************************************************************)
(* grepSearch in detail: the scan of lines 158-187 over the files glob     *)
(* returned.  A file is the sequence of its lines, or cannot be read.      *)
(***************************************************************************)
Unreadable == [readable |-> FALSE, lines |-> <<>>]
Readable(lines) == [readable |-> TRUE, lines |-> lines]

FileEntries ==
  {Unreadable, Readable(<<"">>)}
    \cup {Readable(<<a>>) : a \in {"hi", "no"}}
    \cup {Readable(<<a, b>>) : a \in {"hi", "no"}, b \in {"hi", "no"}}

NoScan == [results |-> <<>>, visited |-> <<>>]

\* the inner loop, lines 163-177, from line i of file f on
RECURSIVE scanLines(_, _, _, _, _, _)
scanLines(st, f, lines, i, pattern, maxResults) ==
  IF i > Len(lines) THEN st
  ELSE LET seen == [st EXCEPT !.visited = Append(@, <<f, i>>)]
       IN IF lineMatches(pattern, lines[i], TRUE)
            THEN LET pushed == [seen EXCEPT !.results =
                                  Append(@, [file |-> f, line |-> i, content |-> lines[i]])]
                 IN IF Len(pushed.results) >= maxResults THEN pushed
                    ELSE scanLines(pushed, f, lines, i + 1, pattern, maxResults)
            ELSE scanLines(seen, f, lines, i + 1, pattern, maxResults)

\* scanFiles without the test that follows the inner loop
RECURSIVE scanFiles_NoOuterBreak(_, _, _, _, _)
scanFiles_NoOuterBreak(st, files, f, pattern, maxResults) ==
  IF f > Len(files) THEN st
  ELSE IF ~files[f].readable
    THEN scanFiles_NoOuterBreak(st, files, f + 1, pattern, maxResults)
  ELSE scanFiles_NoOuterBreak(scanLines(st, f, files[f].lines, 1, pattern, maxResults),
                              files, f + 1, pattern, maxResults)

\* the outer loop, lines 158-187, from file f on: readFileSync throws on a file
\* that cannot be read and the catch block continues with the next file
RECURSIVE scanFiles(_, _, _, _, _)
scanFiles(st, files, f, pattern, maxResults) ==
  IF f > Len(files) THEN st
  ELSE IF ~files[f].readable THEN scanFiles(st, files, f + 1, pattern, maxResults)
  ELSE LET after == scanLines(st, f, files[f].lines, 1, pattern, maxResults)
       IN IF Len(after.results) >= maxResults THEN after
          ELSE scanFiles(after, files, f + 1, pattern, maxResults)

\* bashTool.execute up to the spawn: the denylist answer, or the command, working
\* directory and timer delay the child is started with, which stand for its run
bash(input) ==
  LET command == input.command.s
      timeout == OrElse(input, "timeout", Num(120)).n
      cwd == OrElse(input, "cwd", Str(".")).s
  IN IF Blocked(command)
       THEN Failure("Command blocked for security")
       ELSE Success([command |-> command, cwd |-> cwd, timeoutMs |-> timeout * 1000])

(***************************************************************************)
(* ToolRegistryImpl.  The Map is a sequence of descriptors in insertion    *)
(* order.                                                                  *)
(***************************************************************************)
\* descriptors a caller may register: one whose handler throws, one that shadows a
\* built-in name and whose handler's promise rejects, one that takes a map and
\* returns the input it was handed
throwerTool ==
  [name |-> "thrower", description |-> "throws", parameters |-> <<>>,
   execute |-> "throws"]
shadowTool ==
  [name |-> "readFile", description |-> "shadow",
   parameters |-> <<Param("file", "string", TRUE)>>, execute |-> "rejects"]
configureTool ==
  [name |-> "configure", description |-> "configure",
   parameters |-> <<Param("options", "object", TRUE), Optional("level", "number", Num(1))>>,
   execute |-> "echo"]
CustomTools == {throwerTool, shadowTool, configureTool}

\* the key under which two names are the same entry, with letter case ignored
mapKey_Folded(name) ==
  CASE name = "createfile" -> "createFile"
    [] name = "readfile" -> "readFile"
    [] OTHER -> name

\* Map keys are compared as they are written
mapKey(name) == name

mapHas(m, name) == \E k \in 1..Len(m) : mapKey(m[k].name) = mapKey(name)
mapGet(m, name) == m[CHOOSE k \in 1..Len(m) : mapKey(m[k].name) = mapKey(name)]

\* Map.prototype.set: an existing key keeps its position and takes the new value
mapSet(m, tool) ==
  IF \E k \in 1..Len(m) : m[k].name = tool.name
    THEN [k \in 1..Len(m) |-> IF m[k].name = tool.name THEN tool ELSE m[k]]
    ELSE Append(m, tool)

\* line 13
register(m, tool) == mapSet(m, tool)

\* line 21
list(m) == m

\* a raw input that is an object; on null or a number the in operator throws

\* toolExecute with readFile leaving a copy of what it read next to the file
toolExecute_ReadLeavesCopy(tool, input, fs) ==
  CASE tool.execute = "listDir" ->
         [settles |-> "resolves", result |-> listDir(input, fs), fs |-> fs]
    [] tool.execute = "readFile" ->
         [settles |-> "resolves", result |-> readFile(input, fs),
          fs |-> IF readFile(input, fs).success
                   THEN [fs EXCEPT !["a.txt.backup"] = fs[input.path.s]] ELSE fs]
    [] tool.execute = "editFile" ->
         [settles |-> "resolves", result |-> editFile(input, fs).result,
          fs |-> editFile(input, fs).fs]
    [] tool.execute = "deleteFile" ->
         [settles |-> "resolves", result |-> deleteFile(input, fs).result,
          fs |-> deleteFile(input, fs).fs]
    [] tool.execute = "createFile" ->
         [settles |-> "resolves", result |-> createFile(input, fs).result,
          fs |-> createFile(input, fs).fs]
    [] tool.execute = "fileSearch" ->
         [settles |-> "resolves", result |-> fileSearch(input, fs), fs |-> fs]
    [] tool.execute = "grepSearch" ->
         [settles |-> "resolves", result |-> grepSearch(input, fs), fs |-> fs]
    [] tool.execute = "bash" ->
         [settles |-> "resolves", result |-> bash(input), fs |-> fs]
    [] tool.execute = "echo" ->
         [settles |-> "resolves", result |-> Success([input |-> input]), fs |-> fs]
    [] tool.execute \in {"throws", "rejects"} ->
         [settles |-> tool.execute, result |-> Failure(""), fs |-> fs]

\* tool.execute(input): what the handler's promise does, and the filesystem after
toolExecute(tool, input, fs) ==
  CASE tool.execute = "listDir" ->
         [settles |-> "resolves", result |-> listDir(input, fs), fs |-> fs]
    [] tool.execute = "readFile" ->
         [settles |-> "resolves", result |-> readFile(input, fs), fs |-> fs]
    [] tool.execute = "editFile" ->
         [settles |-> "resolves", result |-> editFile(input, fs).result,
          fs |-> editFile(input, fs).fs]
    [] tool.execute = "deleteFile" ->
         [settles |-> "resolves", result |-> deleteFile(input, fs).result,
          fs |-> deleteFile(input, fs).fs]
    [] tool.execute = "createFile" ->
         [settles |-> "resolves", result |-> createFile(input, fs).result,
          fs |-> createFile(input, fs).fs]
    [] tool.execute = "fileSearch" ->
         [settles |-> "resolves", result |-> fileSearch(input, fs), fs |-> fs]
    [] tool.execute = "grepSearch" ->
         [settles |-> "resolves", result |-> grepSearch(input, fs), fs |-> fs]
    [] tool.execute = "bash" ->
         [settles |-> "resolves", result |-> bash(input), fs |-> fs]
    [] tool.execute = "echo" ->
         [settles |-> "resolves", result |-> Success([input |-> input]), fs |-> fs]
    [] tool.execute \in {"throws", "rejects"} ->
         [settles |-> tool.execute, result |-> Failure(""), fs |-> fs]

\* what one call of execute did: the result it returned (or raised: its promise
\* rejected), the pieces its error message interpolates, whether validateInput
\* ran, whether the handler ran and with which input, and the filesystem after
Outcome(raised, result, v, validated, invoked, handed, fs) ==
  [raised |-> raised, result |-> result, param |-> v.param, expected |-> v.expected,
   got |-> v.got, validated |-> validated, invoked |-> invoked, handed |-> handed,
   fs |-> fs]

NoDetail == [param |-> "", expected |-> "", got |-> ""]

\* the catch block with the error thrown on
catchBlock_Rethrown(o) == [o EXCEPT !.raised = TRUE]

\* lines 46-51
catchBlock(o) == [o EXCEPT !.raised = FALSE, !.result = Failure("Error executing tool")]

\* tryBlock with the input cut down to the declared parameters
tryBlock_DeclaredOnly(tool, input, fs) ==
  IF IsPrimitive(input) /\ Len(tool.parameters) > 0
    THEN Outcome(TRUE, Failure(""), NoDetail, TRUE, FALSE, Null, fs)
  ELSE LET validationResult == validateInput(tool, Props(input))
           declared == {tool.parameters[k].name : k \in 1..Len(tool.parameters)}
           cut == IF IsObject(input)
                    THEN [k \in DOMAIN input \cap declared |-> input[k]] ELSE input
       IN IF ~validationResult.valid
            THEN Outcome(FALSE, Failure("Invalid input for tool"), validationResult,
                         TRUE, FALSE, Null, fs)
            ELSE LET run == toolExecute(tool, cut, fs)
                 IN Outcome(run.settles # "resolves", run.result, NoDetail,
                            TRUE, TRUE, cut, run.fs)

\* lines 33-45, with raised = TRUE where the try block throws
tryBlock(tool, input, fs) ==
  IF IsPrimitive(input) /\ Len(tool.parameters) > 0
    THEN Outcome(TRUE, Failure(""), NoDetail, TRUE, FALSE, Null, fs)
  ELSE LET validationResult == validateInput(tool, Props(input))
       IN IF ~validationResult.valid
            THEN Outcome(FALSE, Failure("Invalid input for tool"), validationResult,
                         TRUE, FALSE, Null, fs)
            ELSE LET run == toolExecute(tool, input, fs)
                 IN Outcome(run.settles # "resolves", run.result, NoDetail,
                            TRUE, TRUE, input, run.fs)

\* lines 24-52
execute(m, toolCall, fs) ==
  IF ~mapHas(m, toolCall.tool)
    THEN Outcome(FALSE, Failure("Tool not found"), NoDetail, FALSE, FALSE, Null, fs)
    ELSE LET attempt == tryBlock(mapGet(m, toolCall.tool), toolCall.input, fs)
         IN IF attempt.raised THEN catchBlock(attempt) ELSE attempt

\* paramText with the mark put on the required parameters
paramText_MarksRequired(p) ==
  <<p.name>> \o (IF p.required THEN <<"?">> ELSE <<>>) \o <<": ", p.type>>

\* lines 163-165: one parameter of a catalogue line, and the parameters joined
paramText(p) == <<p.name>> \o (IF p.required THEN <<>> ELSE <<"?">>) \o <<": ", p.type>>

RECURSIVE join(_)
join(ps) ==
  IF ps = <<>> THEN <<>>
  ELSE IF Len(ps) = 1 THEN paramText(ps[1])
  ELSE paramText(ps[1]) \o <<", ">> \o join(Tail(ps))

\* lines 161-168: a line is the sequence of the pieces the template joins
getToolDescriptions(m) ==
  [k \in 1..Len(m) |->
     <<m[k].name, "(">> \o join(m[k].parameters) \o <<"): ", m[k].description>>]

(***************************************************************************)
(* Rendering of one result (the message pushed on toolResults).  The field *)
(* at is the position of the directive's opening fence in the text.        *)
(***************************************************************************)
Line(label, text, num) == [label |-> label, text |-> text, num |-> num]

successLines(toolName, result) ==
  IF toolName = <<"createFile">>
    THEN <<Line("Created", result.data.path, 0)>>
  ELSE IF toolName = <<"readFile">>
    THEN <<Line("Read", result.data.path, result.data.size)>>
         \o (IF result.data.content # ""
               THEN <<Line("Preview", result.data.content, 0)>> ELSE <<>>)
  ELSE IF toolName = <<"bash">>
    THEN (IF result.data.stdout # ""
            THEN <<Line("Command", result.data.command, 0),
                   Line("Output", result.data.stdout, 0)>>
            ELSE <<>>)
         \o (IF result.data.stderr # ""
               THEN <<Line("Error output", result.data.stderr, 0)>> ELSE <<>>)
  ELSE <<>>

\* the message of lines 120-163
resultMsg(toolName, result, at) ==
  IF result.success
    THEN [glyph |-> "executed successfully", tool |-> toolName, error |-> "",
          lines |-> successLines(toolName, result), at |-> at]
    ELSE [glyph |-> "failed", tool |-> toolName, error |-> result.error,
          lines |-> <<>>, at |-> at]

\* catchMsg with the tool left out of the message
catchMsg_Unnamed(toolName, at) ==
  [glyph |-> "execution error", tool |-> <<>>, error |-> "SyntaxError",
   lines |-> <<>>, at |-> at]

\* the message of the catch block, lines 164-168
catchMsg(toolName, at) ==
  [glyph |-> "execution error", tool |-> toolName, error |-> "SyntaxError",
   lines |-> <<>>, at |-> at]

(***************************************************************************)
(* The advisory intent patterns: pattern p matches a line in which a token *)
(* containing one of its verbs is followed by a token containing one of    *)
(* its nouns ("." does not cross a newline), or one token contains both.   *)
(*   1 (create|write|make).*(file|document)   2 (list|show).*(directory|   *)
(*   folder|files)   3 (read|open|show).*file   4 (search|find).*(file|    *)
(*   code)   5 (run|execute).*(command|bash), all case-insensitive         *)
(***************************************************************************)
Verbs(tok) ==
  CASE tok \in {"create", "createFile"} -> {1}
    [] tok = "readFile" -> {3}
    [] OTHER -> {}

Nouns(tok) ==
  CASE tok \in {"file", "createFile", "readFile"} -> {1, 3, 4}
    [] tok \in {"bash", "pLs", "pHalt", "pNum"} -> {5}
    [] OTHER -> {}

\* patterns matched inside the token alone
Both(tok) ==
  CASE tok = "createFile" -> {1}
    [] tok = "readFile" -> {3}
    [] OTHER -> {}

shouldUseTools(t) ==
  \E p \in 1..5 : \E i \in 1..Len(t) : \E j \in i..Len(t) :
     /\ p \in Verbs(t[i])
     /\ p \in Nouns(t[j])
     /\ (i < j \/ p \in Both(t[i]))
     /\ \A k \in i..j : t[k] # NL

(***************************************************************************)
(* Generated texts: up to MaxBlocks segments, each a directive block in    *)
(* one of the two header forms or a piece of prose.                        *)
(***************************************************************************)
ColonBlock(name, payload) == <<FENCE, KW, COLON, name, NL, payload, NL, FENCE>>
SpaceBlock(name, payload) == <<FENCE, KW, SP, name, NL, payload, NL, FENCE>>

Directives ==
  { <<"createFile", "pCreate">>, <<"readFile", "pRead">>, <<"bash", "pLs">>,
    <<"bash", "pHalt">>, <<"bash", "pNum">>, <<"nosuch", "pRead">>,
    <<"readFile", "pBad">> }

Segments ==
  {ColonBlock(d[1], d[2]) : d \in Directives}
    \cup {SpaceBlock(d[1], d[2]) : d \in Directives}
    \cup { <<NL, "create", SP, "file", NL>>, <<NL, "hello", NL>> }

RECURSIVE Texts(_)
Texts(n) ==
  IF n = 0 THEN {<<>>}
  ELSE LET shorter == Texts(n - 1)
       IN shorter \cup {s \o t : s \in Segments, t \in shorter}

(***************************************************************************)
(* State.                                                                  *)
(***************************************************************************)
VARIABLES
  response,      \* the generated text of the turn
  toolRegistry,  \* AIClient.toolRegistry: "set" or "null"
  pc,            \* "start", "scan" (in the loops), "await" (awaiting execute), "done"
  pat,           \* index into toolCallPatterns; 3 once both loops are over
  lastIndex,     \* position at which the current pattern resumes
  toolExecuted,
  toolResults,
  promise,       \* the promise of the awaited registry.execute call
  cur,           \* name and position of the directive being executed
  files,         \* the filesystem
  shell,         \* the closure of the running bash call
  proc,          \* the processes of the running bash call
  advisory,      \* the missed-tool advisory was printed
  returned,      \* the value queryAIWithTools returned
  order,         \* history: positions of the matches in the order they were processed
  execLog,       \* history: the calls of registry.execute
  handlerLog,    \* history: the handlers invoked
  spawnLog,      \* history: the commands handed to spawn
  inFlight,      \* history: registry.execute calls not yet resumed from
  registry,      \* ToolRegistryImpl.tools
  regLog,        \* history: the descriptors passed to register, in order
  call,          \* the last operation on the registry and what it returned
  timeoutPromise,\* startRepl: the 60-second promise raced against the turn
  turns,         \* startRepl: the line handlers in progress, one per input line
  now,           \* Date.now()
  overwritten    \* history: the contents editFile has replaced

vars == <<response, toolRegistry, pc, pat, lastIndex, toolExecuted, toolResults, promise,
          cur, files, shell, proc, advisory, returned, order, execLog, handlerLog,
          spawnLog, inFlight, registry, regLog, call, timeoutPromise, turns, now,
          overwritten>>

RegistryVars == <<registry, regLog, call>>

ReplVars == <<timeoutPromise, turns, now, overwritten>>

\* every variable of a turn
QueryVars == <<response, toolRegistry, pc, pat, lastIndex, toolExecuted, toolResults,
               promise, cur, shell, proc, advisory, returned, order, execLog, handlerLog,
               spawnLog, inFlight>>

\* every variable outside the registry but the filesystem
TurnVars == <<QueryVars, ReplVars>>

NoOutcome == Outcome(FALSE, Failure(""), NoDetail, FALSE, FALSE, Null, <<>>)
NoOperation ==
  [op |-> "none", tool |-> "", input |-> Null, before |-> <<>>, out |-> NoOutcome,
   value |-> <<>>]

NoPromise == [state |-> "none", result |-> Failure("")]
Pending == [state |-> "pending", result |-> Failure("")]
Resolved(result) == [state |-> "resolved", result |-> result]

NoCall == [tool |-> <<>>, at |-> 0]
NotReturned == [text |-> <<>>, appended |-> FALSE, results |-> <<>>]

\* the locals of queryAIWithTools and the histories when the call begins
TurnStart ==
  /\ files = [p \in Paths |-> Absent]
  /\ pc = "start"
  /\ pat = 1
  /\ lastIndex = 1
  /\ toolExecuted = FALSE
  /\ toolResults = <<>>
  /\ promise = NoPromise
  /\ cur = NoCall
  /\ shell = NoShell
  /\ proc = NoProcess
  /\ advisory = FALSE
  /\ returned = NotReturned
  /\ order = <<>>
  /\ execLog = <<>>
  /\ handlerLog = <<>>
  /\ spawnLog = <<>>
  /\ inFlight = 0
  /\ registry = tools
  /\ regLog = tools
  /\ call = NoOperation
  /\ turns = <<>>
  /\ now = 0
  /\ overwritten = {}

QueryInit ==
  /\ response \in Texts(MaxBlocks)
  /\ toolRegistry \in {"set", "null"}
  /\ TurnStart

\* queryAIWithTools called on its own
Init == QueryInit /\ timeoutPromise = "none"

(***************************************************************************)
(* queryAIWithTools.                                                       *)
(***************************************************************************)
\* queryAIWithTools without the check of lines 34-36
QueryNoRegistry_Scans ==
  /\ pc = "start"
  /\ toolRegistry = "null"
  /\ pc' = "scan"
  /\ UNCHANGED <<RegistryVars, ReplVars>>
  /\ UNCHANGED <<response, toolRegistry, pat, lastIndex, toolExecuted, toolResults,
                 promise, cur, files, shell, proc, advisory, returned, order, execLog,
                 handlerLog, spawnLog, inFlight>>

\* lines 34-36: without a registry the text is returned as generated
QueryNoRegistry ==
  /\ pc = "start"
  /\ toolRegistry = "null"
  /\ returned' = [text |-> response, appended |-> FALSE, results |-> <<>>]
  /\ pc' = "done"
  /\ UNCHANGED <<RegistryVars, ReplVars>>
  /\ UNCHANGED <<response, toolRegistry, pat, lastIndex, toolExecuted, toolResults,
                 promise, cur, files, shell, proc, advisory, order, execLog, handlerLog,
                 spawnLog, inFlight>>

\* lines 38-100: the text is generated and the first pattern is reset
BeginScan ==
  /\ pc = "start"
  /\ toolRegistry = "set"
  /\ pc' = "scan"
  /\ pat' = 1
  /\ lastIndex' = 1
  /\ toolExecuted' = FALSE
  /\ toolResults' = <<>>
  /\ UNCHANGED <<RegistryVars, ReplVars>>
  /\ UNCHANGED <<response, toolRegistry, promise, cur, files, shell, proc, advisory,
                 returned, order, execLog, handlerLog, spawnLog, inFlight>>

\* CanIterate with the call of registry.execute not awaited
CanIterate_NotAwaited == pc \in {"scan", "await"} /\ pat <= Len(toolCallPatterns)

\* the loops take their next step only when the awaited call has been resumed from
CanIterate == pc = "scan" /\ pat <= Len(toolCallPatterns)

\* the match the while condition of line 102 finds
CurMatch == Exec(response, pat, lastIndex)

\* line 102: exec returns null, the for loop moves to the next pattern
NextPattern ==
  /\ CanIterate
  /\ ~CurMatch.found
  /\ pat' = pat + 1
  /\ lastIndex' = 1
  /\ UNCHANGED <<RegistryVars, ReplVars>>
  /\ UNCHANGED <<response, toolRegistry, pc, toolExecuted, toolResults, promise, cur,
                 files, shell, proc, advisory, returned, order, execLog, handlerLog,
                 spawnLog, inFlight>>

\* DecodeFailed with the error swallowed: nothing is recorded for the directive
DecodeFailed_Dropped ==
  /\ CanIterate
  /\ CurMatch.found
  /\ ~JsonParses(Trim(CurMatch.body))
  /\ toolExecuted' = TRUE
  /\ lastIndex' = CurMatch.end + 1
  /\ order' = Append(order, CurMatch.index)
  /\ UNCHANGED <<RegistryVars, ReplVars>>
  /\ UNCHANGED <<response, toolRegistry, pc, pat, toolResults, promise, cur, files, shell,
                 proc, advisory, returned, execLog, handlerLog, spawnLog, inFlight>>

\* DecodeFailed with toolExecuted set only after a successful parse
DecodeFailed_Unmarked ==
  /\ CanIterate
  /\ CurMatch.found
  /\ ~JsonParses(Trim(CurMatch.body))
  /\ lastIndex' = CurMatch.end + 1
  /\ order' = Append(order, CurMatch.index)
  /\ toolResults' = Append(toolResults, catchMsg(CurMatch.name, CurMatch.index))
  /\ UNCHANGED <<RegistryVars, ReplVars>>
  /\ UNCHANGED <<response, toolRegistry, pc, pat, promise, cur, files, shell, proc,
                 advisory, returned, execLog, handlerLog, spawnLog, inFlight,
                 toolExecuted>>

\* lines 103-112 and 164-168: JSON.parse throws, the catch block records the error
DecodeFailed ==
  /\ CanIterate
  /\ CurMatch.found
  /\ ~JsonParses(Trim(CurMatch.body))
  /\ toolExecuted' = TRUE
  /\ lastIndex' = CurMatch.end + 1
  /\ order' = Append(order, CurMatch.index)
  /\ toolResults' = Append(toolResults, catchMsg(CurMatch.name, CurMatch.index))
  /\ UNCHANGED <<RegistryVars, ReplVars>>
  /\ UNCHANGED <<response, toolRegistry, pc, pat, promise, cur, files, shell, proc,
                 advisory, returned, execLog, handlerLog, spawnLog, inFlight>>

\* lines 103-118: a match whose payload decodes is handed to registry.execute
Call(m) ==
  /\ CanIterate
  /\ m.found
  /\ JsonParses(Trim(m.body))
  /\ toolExecuted' = TRUE
  /\ lastIndex' = m.end + 1
  /\ order' = Append(order, m.index)
  /\ execLog' = Append(execLog, [tool |-> m.name, input |-> JsonParse(Trim(m.body)),
                                 at |-> m.index])
  /\ cur' = [tool |-> m.name, at |-> m.index]
  /\ inFlight' = inFlight + 1
  /\ pc' = "await"

CurInput == JsonParse(Trim(CurMatch.body))

\* registry.execute returns before any handler runs: unknown tool or invalid input
\* the TypeError of the in operator on a primitive input is caught at line 46
Throws(name, input) == IsPrimitive(input) /\ Len(get(name).parameters) > 0

Rejection(name, input) ==
  IF ~Registered(name)
    THEN Failure("Tool not found")
  ELSE IF Throws(name, input)
    THEN Failure("Error executing tool")
  ELSE Failure(validateInput(get(name), Props(input)).error)

Rejected(name, input) ==
  IF ~Registered(name) THEN TRUE
  ELSE IF Throws(name, input) THEN TRUE
  ELSE ~validateInput(get(name), Props(input)).valid

\* ExecuteRejected leaving the scan of the pattern once a payload that is no object
\* was refused
ExecuteRejected_Breaks ==
  /\ CanIterate
  /\ CurMatch.found
  /\ JsonParses(Trim(CurMatch.body))
  /\ Rejected(CurMatch.name, CurInput)
  /\ toolExecuted' = TRUE
  /\ lastIndex' = IF IsObject(CurInput) THEN CurMatch.end + 1 ELSE Len(response) + 1
  /\ order' = Append(order, CurMatch.index)
  /\ execLog' = Append(execLog, [tool |-> CurMatch.name, input |-> CurInput,
                                 at |-> CurMatch.index])
  /\ cur' = [tool |-> CurMatch.name, at |-> CurMatch.index]
  /\ inFlight' = inFlight + 1
  /\ pc' = "await"
  /\ promise' = Resolved(Rejection(CurMatch.name, CurInput))
  /\ UNCHANGED <<RegistryVars, ReplVars>>
  /\ UNCHANGED <<response, toolRegistry, pat, toolResults, files, shell, proc, advisory,
                 returned, handlerLog, spawnLog>>

ExecuteRejected ==
  /\ Call(CurMatch)
  /\ Rejected(CurMatch.name, CurInput)
  /\ promise' = Resolved(Rejection(CurMatch.name, CurInput))
  /\ UNCHANGED <<RegistryVars, ReplVars>>
  /\ UNCHANGED <<response, toolRegistry, pat, toolResults, files, shell, proc, advisory,
                 returned, handlerLog, spawnLog>>

\* registry.execute invokes createFileTool.execute
ExecuteCreateFile ==
  /\ Call(CurMatch)
  /\ ~Rejected(CurMatch.name, CurInput)
  /\ CurMatch.name = <<"createFile">>
  /\ handlerLog' = Append(handlerLog, [tool |-> "createFile", at |-> CurMatch.index])
  /\ files' = createFile(CurInput, files).fs
  /\ promise' = Resolved(createFile(CurInput, files).result)
  /\ UNCHANGED <<RegistryVars, ReplVars>>
  /\ UNCHANGED <<response, toolRegistry, pat, toolResults, shell, proc, advisory,
                 returned, spawnLog>>

\* registry.execute invokes readFileTool.execute
ExecuteReadFile ==
  /\ Call(CurMatch)
  /\ ~Rejected(CurMatch.name, CurInput)
  /\ CurMatch.name = <<"readFile">>
  /\ handlerLog' = Append(handlerLog, [tool |-> "readFile", at |-> CurMatch.index])
  /\ promise' = Resolved(readFile(CurInput, files))
  /\ UNCHANGED <<RegistryVars, ReplVars>>
  /\ UNCHANGED <<response, toolRegistry, pat, toolResults, files, shell, proc, advisory,
                 returned, spawnLog>>

\* bashTool.execute, lines 349-377: the command is on the denylist
ExecuteBashBlocked ==
  /\ Call(CurMatch)
  /\ ~Rejected(CurMatch.name, CurInput)
  /\ CurMatch.name = <<"bash">>
  /\ Blocked(CurInput.command.s)
  /\ handlerLog' = Append(handlerLog, [tool |-> "bash", at |-> CurMatch.index])
  /\ promise' = Resolved(Failure("Command blocked for security"))
  /\ UNCHANGED <<RegistryVars, ReplVars>>
  /\ UNCHANGED <<response, toolRegistry, pat, toolResults, files, shell, proc, advisory,
                 returned, spawnLog>>

\* bashTool.execute, lines 379-393: spawn, which starts the child or fails, and the
\* timer
ExecuteBashSpawn ==
  /\ Call(CurMatch)
  /\ ~Rejected(CurMatch.name, CurInput)
  /\ CurMatch.name = <<"bash">>
  /\ ~Blocked(CurInput.command.s)
  /\ handlerLog' = Append(handlerLog, [tool |-> "bash", at |-> CurMatch.index])
  /\ spawnLog' = Append(spawnLog, CurInput.command.s)
  /\ \E started \in BOOLEAN :
       proc' = [NoProcess EXCEPT !.child = IF started THEN "running" ELSE "failed"]
  /\ shell' = [NoShell EXCEPT !.timer = "armed", !.command = CurInput.command.s]
  /\ promise' = Pending
  /\ UNCHANGED <<RegistryVars, ReplVars>>
  /\ UNCHANGED <<response, toolRegistry, pat, toolResults, files, advisory, returned>>

\* lines 120-163: the await returns and the result is rendered and recorded
AwaitResume ==
  /\ pc = "await"
  /\ promise.state = "resolved"
  /\ toolResults' = Append(toolResults, resultMsg(cur.tool, promise.result, cur.at))
  /\ promise' = NoPromise
  /\ cur' = NoCall
  /\ shell' = NoShell
  /\ proc' = NoProcess
  /\ inFlight' = inFlight - 1
  /\ pc' = "scan"
  /\ UNCHANGED <<RegistryVars, ReplVars>>
  /\ UNCHANGED <<response, toolRegistry, pat, lastIndex, toolExecuted, files, advisory,
                 returned, order, execLog, handlerLog, spawnLog>>

\* Finish with the trailer appended whether or not there are results
Finish_AlwaysAppends ==
  /\ pc = "scan"
  /\ pat > Len(toolCallPatterns)
  /\ advisory' = (~toolExecuted /\ shouldUseTools(response))
  /\ returned' = [text |-> response, appended |-> TRUE, results |-> toolResults]
  /\ pc' = "done"
  /\ UNCHANGED <<RegistryVars, ReplVars>>
  /\ UNCHANGED <<response, toolRegistry, pat, lastIndex, toolExecuted, toolResults,
                 promise, cur, files, shell, proc, order, execLog, handlerLog, spawnLog,
                 inFlight>>

\* lines 172-198: the advisory, the trailer and the return
Finish ==
  /\ pc = "scan"
  /\ pat > Len(toolCallPatterns)
  /\ advisory' = (~toolExecuted /\ shouldUseTools(response))
  /\ returned' = [text |-> response, appended |-> Len(toolResults) > 0,
                  results |-> toolResults]
  /\ pc' = "done"
  /\ UNCHANGED <<RegistryVars, ReplVars>>
  /\ UNCHANGED <<response, toolRegistry, pat, lastIndex, toolExecuted, toolResults,
                 promise, cur, files, shell, proc, order, execLog, handlerLog, spawnLog,
                 inFlight>>

(***************************************************************************)
(* bashTool.execute after the spawn: the timer, the listeners, and what    *)
(* the operating system does to the processes.                             *)
(***************************************************************************)
OrchestratorVars == <<response, toolRegistry, pc, pat, lastIndex, toolExecuted,
                      toolResults, cur, files, advisory, returned, order, execLog,
                      handlerLog, spawnLog, inFlight>>

\* lines 390-393: the timeout elapses; kill delivers SIGTERM to the child if it runs,
\* and the command the child runs may have chosen to ignore that signal.
\* A failed spawn emits its error before any timer can fire.
TimerFire ==
  /\ shell.timer = "armed"
  /\ proc.child \in {"running", "exited"}
  /\ shell' = [shell EXCEPT !.killed = TRUE, !.timer = "fired"]
  /\ IF proc.child = "running"
       THEN \E ign \in BOOLEAN : proc' = [proc EXCEPT !.sigterm = TRUE, !.ignoresTerm = ign]
       ELSE proc' = proc
  /\ UNCHANGED <<RegistryVars, ReplVars>>
  /\ UNCHANGED <<OrchestratorVars, promise>>

\* lines 395-397
OnStdoutData ==
  /\ promise.state = "pending"
  /\ proc.child = "running"
  /\ shell.stdout = ""
  /\ shell' = [shell EXCEPT !.stdout = "out"]
  /\ UNCHANGED <<RegistryVars, ReplVars>>
  /\ UNCHANGED <<OrchestratorVars, promise, proc>>

\* lines 399-401
OnStderrData ==
  /\ promise.state = "pending"
  /\ proc.child = "running"
  /\ shell.stderr = ""
  /\ shell' = [shell EXCEPT !.stderr = "err"]
  /\ UNCHANGED <<RegistryVars, ReplVars>>
  /\ UNCHANGED <<OrchestratorVars, promise, proc>>

\* what the child leaves behind when it ends: no descendant, one that inherited the
\* pipes ("holding") or one whose streams were redirected ("detached")
Descendants == {"none", "holding", "detached"}

\* the child ends on its own with exit code c
ChildExit(c, left) ==
  /\ proc.child = "running"
  /\ proc' = [proc EXCEPT !.child = "exited", !.exitCode = c, !.endedBy = "self",
                          !.ignoresTerm = FALSE, !.orphan = left]
  /\ UNCHANGED <<RegistryVars, ReplVars>>
  /\ UNCHANGED <<OrchestratorVars, promise, shell>>

\* the child is ended by the SIGTERM it was sent, unless it ignores the signal; kill
\* reaches the child only, not the processes the child started
ChildTerminated(left) ==
  /\ proc.child = "running"
  /\ proc.sigterm
  /\ ~proc.ignoresTerm
  /\ proc' = [proc EXCEPT !.child = "exited", !.exitCode = NullCode,
                          !.endedBy = "signal", !.orphan = left]
  /\ UNCHANGED <<RegistryVars, ReplVars>>
  /\ UNCHANGED <<OrchestratorVars, promise, shell>>

\* a descendant ends, closing the streams it held
OrphanExits ==
  /\ proc.orphan \in {"holding", "detached"}
  /\ proc' = [proc EXCEPT !.orphan = "none"]
  /\ UNCHANGED <<RegistryVars, ReplVars>>
  /\ UNCHANGED <<OrchestratorVars, promise, shell>>

\* lines 403-424: close is emitted once the child has ended and its streams are closed
OnClose ==
  /\ promise.state = "pending"
  /\ proc.child = "exited"
  /\ proc.orphan # "holding"
  /\ shell' = [shell EXCEPT !.timer = IF shell.timer = "armed" THEN "cleared"
                                       ELSE shell.timer]
  /\ promise' = Resolved(closeResult(shell, proc.exitCode))
  /\ UNCHANGED <<RegistryVars, ReplVars>>
  /\ UNCHANGED <<OrchestratorVars, proc>>

\* lines 426-432: the spawn failed
OnError ==
  /\ promise.state = "pending"
  /\ proc.child = "failed"
  /\ shell' = [shell EXCEPT !.timer = IF shell.timer = "armed" THEN "cleared"
                                       ELSE shell.timer]
  /\ promise' = Resolved(Failure("Failed to execute command"))
  /\ UNCHANGED <<RegistryVars, ReplVars>>
  /\ UNCHANGED <<OrchestratorVars, proc>>

\* lines 403-424 once more: after the error of a failed spawn the runtime emits close
\* as well; the listener clears the timer again and its resolve finds the promise
\* already settled, which leaves the first result in place
LateClose ==
  /\ pc = "await"
  /\ proc.child = "failed"
  /\ promise.state = "resolved"
  /\ proc' = [proc EXCEPT !.child = "closed"]
  /\ shell' = [shell EXCEPT !.timer = IF shell.timer = "armed" THEN "cleared"
                                       ELSE shell.timer]
  /\ promise' = IF promise.state = "pending" THEN Resolved(closeResult(shell, NullCode))
                                             ELSE promise
  /\ UNCHANGED <<RegistryVars, ReplVars>>
  /\ UNCHANGED OrchestratorVars

(***************************************************************************)
(* Specifications.                                                         *)
(***************************************************************************)
Next ==
  \/ QueryNoRegistry
  \/ BeginScan
  \/ NextPattern
  \/ DecodeFailed
  \/ ExecuteRejected
  \/ ExecuteCreateFile
  \/ ExecuteReadFile
  \/ ExecuteBashBlocked
  \/ ExecuteBashSpawn
  \/ AwaitResume
  \/ Finish
  \/ TimerFire
  \/ OnStdoutData
  \/ OnStderrData
  \/ \E c \in ExitCodes, left \in Descendants : ChildExit(c, left)
  \/ \E left \in Descendants : ChildTerminated(left)
  \/ OrphanExits
  \/ OnClose
  \/ OnError
  \/ LateClose

Spec == Init /\ [][Next]_vars

\* A turn of a client that was constructed with a registry: the early return of
\* lines 34-36 is not taken.
RegisteredInit == Init /\ toolRegistry = "set"

RegisteredNext ==
  \/ BeginScan
  \/ NextPattern
  \/ DecodeFailed
  \/ ExecuteRejected
  \/ ExecuteCreateFile
  \/ ExecuteReadFile
  \/ ExecuteBashBlocked
  \/ ExecuteBashSpawn
  \/ AwaitResume
  \/ Finish
  \/ TimerFire
  \/ OnStdoutData
  \/ OnStderrData
  \/ \E c \in ExitCodes, left \in Descendants : ChildExit(c, left)
  \/ \E left \in Descendants : ChildTerminated(left)
  \/ OrphanExits
  \/ OnClose
  \/ OnError
  \/ LateClose

RegisteredSpec == RegisteredInit /\ [][RegisteredNext]_vars

(***************************************************************************)
(* startRepl, lines 65-91: the turn is raced against a 60-second promise.  *)
(***************************************************************************)
ReplInit == QueryInit /\ toolRegistry = "set" /\ timeoutPromise = "pending"

\* lines 76-78 and 86-90: the timer fires while the turn is suspended, awaiting the
\* generator (pc is "start") or a pending execute; the race rejects and the catch
\* block reports the failure.  Nothing is sent to the turn.
TimeoutRejects ==
  /\ timeoutPromise = "pending"
  /\ pc = "start" \/ (pc = "await" /\ promise.state = "pending")
  /\ timeoutPromise' = "rejected"
  /\ UNCHANGED <<QueryVars, RegistryVars, files, turns, now, overwritten>>

ReplNext == RegisteredNext \/ TimeoutRejects

ReplSpec == ReplInit /\ [][ReplNext]_vars

\* While the promise of bashTool.execute is pending the scan is suspended at its
\* await, so the steps that can be taken are the timer, the listeners and what the
\* processes do.  The event loop runs every timer and listener that is ready, and a
\* child that does not ignore SIGTERM is ended by it; the awaiting scan resumes once
\* the promise is resolved.  Nothing makes a command or its descendants end on
\* their own, so ChildExit and OrphanExits carry no fairness.
FairSpec ==
  /\ Init
  /\ [][Next]_vars
  /\ WF_vars(TimerFire)
  /\ WF_vars(\E left \in Descendants : ChildTerminated(left))
  /\ WF_vars(OnClose)
  /\ WF_vars(OnError)
  /\ WF_vars(AwaitResume)
  /\ WF_vars(Finish)

(***************************************************************************)
(* The registry used directly: register, get, list, getToolDescriptions    *)
(* and execute, called in any order on a registry just constructed.        *)
(***************************************************************************)
A == Str("a.txt")

\* the calls of execute that are made
ToolCalls ==
  { [tool |-> "createFile", input |-> [path |-> A, content |-> Str("hi")]],
    [tool |-> "createFile", input |-> [path |-> A, content |-> Str("out")]],
    [tool |-> "createFile", input |-> [path |-> A]],
    [tool |-> "createFile", input |-> [content |-> Str("hi")]],
    [tool |-> "createFile", input |-> [path |-> Num(5)]],
    [tool |-> "createFile", input |-> [path |-> A, content |-> Str("hi"), mode |-> Num(5)]],
    [tool |-> "createFile", input |-> Null],
    [tool |-> "createfile", input |-> [path |-> A]],
    [tool |-> "nosuch", input |-> [path |-> A]],
    [tool |-> "readFile", input |-> [path |-> A]],
    [tool |-> "readFile", input |-> [file |-> A]],
    [tool |-> "deleteFile", input |-> [path |-> A]],
    [tool |-> "listDir", input |-> [path |-> Str(".")]],
    [tool |-> "editFile", input |-> [path |-> A, content |-> Str("out")]],
    [tool |-> "editFile", input |-> [path |-> A, content |-> Str("out"),
                                     backup |-> Bool(FALSE)]],
    [tool |-> "editFile", input |-> [path |-> A, content |-> Str("hi"),
                                     backup |-> Bool(TRUE)]],
    [tool |-> "editFile", input |-> [path |-> A]],
    [tool |-> "fileSearch", input |-> [query |-> Str("a")]],
    [tool |-> "fileSearch", input |-> [query |-> Str("a"), maxResults |-> Num(1)]],
    [tool |-> "grepSearch", input |-> [pattern |-> Str("HI")]],
    [tool |-> "grepSearch", input |-> [pattern |-> Str("HI"), caseSensitive |-> Bool(FALSE)]],
    [tool |-> "bash", input |-> [command |-> Str("ls")]],
    [tool |-> "bash", input |-> [command |-> Str("ls"), timeout |-> Str("hi")]],
    [tool |-> "bash", input |-> [command |-> Str("HaLt"), timeout |-> Num(5)]],
    [tool |-> "thrower", input |-> Num(5)],
    [tool |-> "configure", input |-> [options |-> Obj("m")]],
    [tool |-> "configure", input |-> [options |-> Arr("l")]],
    [tool |-> "configure", input |-> [options |-> Null, level |-> Num(5)]] }

\* what is at the two paths when the registry is constructed
InitialFiles ==
  { [p \in Paths |-> IF p = "a.txt" THEN e ELSE Absent] :
      e \in {Absent, File("hi"), Directory} }

RegistryInit ==
  /\ response = <<>>
  /\ toolRegistry = "set"
  /\ files \in InitialFiles
  /\ pc = "registry"
  /\ pat = 1
  /\ lastIndex = 1
  /\ toolExecuted = FALSE
  /\ toolResults = <<>>
  /\ promise = NoPromise
  /\ cur = NoCall
  /\ shell = NoShell
  /\ proc = NoProcess
  /\ advisory = FALSE
  /\ returned = NotReturned
  /\ order = <<>>
  /\ execLog = <<>>
  /\ handlerLog = <<>>
  /\ spawnLog = <<>>
  /\ inFlight = 0
  /\ registry = tools
  /\ regLog = tools
  /\ call = NoOperation
  /\ timeoutPromise = "none"
  /\ turns = <<>>
  /\ now = 0
  /\ overwritten = {}

\* register(tool), lines 12-14
Register(tool) ==
  /\ Len(regLog) < Len(tools) + MaxRegisters
  /\ registry' = register(registry, tool)
  /\ regLog' = Append(regLog, tool)
  /\ call' = [NoOperation EXCEPT !.op = "register", !.tool = tool.name]
  /\ UNCHANGED <<TurnVars, files>>

\* get(name), lines 16-18: value is <<descriptor>>, or <<>> for undefined
Get(name) ==
  /\ call' = [NoOperation EXCEPT !.op = "get", !.tool = name,
                !.value = IF mapHas(registry, name) THEN <<mapGet(registry, name)>>
                          ELSE <<>>]
  /\ UNCHANGED <<TurnVars, files, registry, regLog>>

\* list(), lines 20-22
List ==
  /\ call' = [NoOperation EXCEPT !.op = "list", !.value = list(registry)]
  /\ UNCHANGED <<TurnVars, files, registry, regLog>>

\* getToolDescriptions(), lines 161-168
GetToolDescriptions ==
  /\ call' = [NoOperation EXCEPT !.op = "getToolDescriptions",
                                 !.value = getToolDescriptions(registry)]
  /\ UNCHANGED <<TurnVars, files, registry, regLog>>

\* Execute with a tool whose call failed removed from the registry
Execute_Unregisters(toolCall) ==
  /\ call' = [op |-> "execute", tool |-> toolCall.tool, input |-> toolCall.input,
              before |-> files, out |-> execute(registry, toolCall, files),
              value |-> <<>>]
  /\ files' = call'.out.fs
  /\ registry' = IF call'.out.result.success THEN registry
                 ELSE SelectSeq(registry, LAMBDA t : t.name # toolCall.tool)
  /\ UNCHANGED <<TurnVars, regLog>>

\* execute(toolCall), lines 24-52
Execute(toolCall) ==
  /\ call' = [op |-> "execute", tool |-> toolCall.tool, input |-> toolCall.input,
              before |-> files, out |-> execute(registry, toolCall, files),
              value |-> <<>>]
  /\ files' = call'.out.fs
  /\ UNCHANGED <<TurnVars, registry, regLog>>

RegistryNext ==
  \/ \E tool \in CustomTools : Register(tool)
  \/ \E name \in {"readFile", "createfile", "configure"} : Get(name)
  \/ List
  \/ GetToolDescriptions
  \/ \E toolCall \in ToolCalls : Execute(toolCall)

RegistrySpec == RegistryInit /\ [][RegistryNext]_vars

(***************************************************************************)
(* The two search handlers called on the files glob returned.              *)
(***************************************************************************)
\* the sequences of at most n different members of S
RECURSIVE Orders(_, _)
Orders(S, n) ==
  IF n = 0 THEN {<<>>}
  ELSE LET shorter == Orders(S, n - 1)
       IN shorter \cup
            UNION {{Append(o, x) : x \in S \ {o[i] : i \in 1..Len(o)}} : o \in shorter}

\* the sequences of at most n members of S
RECURSIVE Listings(_, _)
Listings(S, n) ==
  IF n = 0 THEN {<<>>}
  ELSE LET shorter == Listings(S, n - 1)
       IN shorter \cup {Append(o, x) : o \in shorter, x \in S}

SearchInit ==
  /\ response = <<>>
  /\ toolRegistry = "set"
  /\ files = [p \in Paths |-> Absent]
  /\ pc = "search"
  /\ pat = 1
  /\ lastIndex = 1
  /\ toolExecuted = FALSE
  /\ toolResults = <<>>
  /\ promise = NoPromise
  /\ cur = NoCall
  /\ shell = NoShell
  /\ proc = NoProcess
  /\ advisory = FALSE
  /\ returned = NotReturned
  /\ order = <<>>
  /\ execLog = <<>>
  /\ handlerLog = <<>>
  /\ spawnLog = <<>>
  /\ inFlight = 0
  /\ registry = tools
  /\ regLog = tools
  /\ call = NoOperation
  /\ timeoutPromise = "none"
  /\ turns = <<>>
  /\ now = 0
  /\ overwritten = {}

\* fileSearchTool.execute on the files glob found, in the order it found them; the
\* handlers keep nothing between calls, so a behaviour is one call
FileSearch(query, found, maxResults) ==
  /\ call = NoOperation
  /\ call' = [NoOperation EXCEPT
                !.op = "fileSearch",
                !.input = [query |-> query, files |-> found, maxResults |-> maxResults],
                !.value = sortedFiles(found, query, maxResults)]
  /\ UNCHANGED <<TurnVars, files, registry, regLog>>

\* grepSearchTool.execute on the files glob found
GrepSearch(pattern, found, maxResults) ==
  /\ call = NoOperation
  /\ call' = [NoOperation EXCEPT
                !.op = "grepSearch",
                !.input = [pattern |-> pattern, files |-> found,
                           maxResults |-> maxResults],
                !.out = [success |-> TRUE,
                         visited |-> scanFiles(NoScan, found, 1, pattern,
                                               maxResults).visited],
                !.value = scanFiles(NoScan, found, 1, pattern, maxResults).results]
  /\ UNCHANGED <<TurnVars, files, registry, regLog>>

SearchNext ==
  \/ \E query \in Queries :
       \E found \in Orders({n \in Names : globMatch(n, query)}, MaxFound) :
         \E maxResults \in {1, 2, 10} : FileSearch(query, found, maxResults)
  \/ \E found \in Listings(FileEntries, MaxFiles) :
       \E maxResults \in {1, 2, 50} : GrepSearch("hi", found, maxResults)

SearchSpec == SearchInit /\ [][SearchNext]_vars

(***************************************************************************)
(* startRepl, lines 46-97: the line handler is async, so readline hands it *)
(* the next line while the turns of earlier lines are suspended at an      *)
(* await.  Each turn here is a prompt answered with one createFile         *)
(* directive for a.txt.                                                    *)
(***************************************************************************)
NoResult == [success |-> FALSE, error |-> "", data |-> NoData]

LinesInit == RegistryInit /\ files = [p \in Paths |-> Absent]

\* line 46: a line arrives and its handler runs up to the await of line 82
LineArrives(content) ==
  /\ Len(turns) < MaxTurns
  /\ turns' = Append(turns, [state |-> "thinking", content |-> content,
                             result |-> NoResult])
  /\ UNCHANGED <<QueryVars, RegistryVars, files, timeoutPromise, now, overwritten>>

\* the generator answers turn t and the scan matches the directive
Matched(t) ==
  /\ t <= Len(turns)
  /\ turns[t].state = "thinking"
  /\ turns' = [turns EXCEPT ![t].state = "matched"]
  /\ UNCHANGED <<QueryVars, RegistryVars, files, timeoutPromise, now, overwritten>>

\* createFile with an await between the existence check and the write
CreateFileRuns_Awaited(t) ==
  /\ t <= Len(turns)
  /\ turns[t].state \in {"matched", "checked"}
  /\ IF turns[t].state = "matched"
       THEN /\ turns' = [turns EXCEPT ![t].state = "checked",
                                      ![t].result.success = (files["a.txt"] = Absent)]
            /\ files' = files
       ELSE /\ turns' = [turns EXCEPT
                          ![t].state = "settled",
                          ![t].result = IF turns[t].result.success
                                          THEN Success([path |-> "a.txt"])
                                          ELSE Failure("File already exists")]
            /\ files' = IF turns[t].result.success
                          THEN [files EXCEPT !["a.txt"] = File(turns[t].content)]
                          ELSE files
  /\ UNCHANGED <<QueryVars, RegistryVars, timeoutPromise, now, overwritten>>

\* registry.execute of turn t calls createFileTool.execute, whose body holds no
\* await: the check of line 325 and the write of line 339 run in one step
CreateFileRuns(t) ==
  /\ t <= Len(turns)
  /\ turns[t].state = "matched"
  /\ LET run == createFile([path |-> Str("a.txt"), content |-> Str(turns[t].content)],
                           files)
     IN /\ files' = run.fs
        /\ turns' = [turns EXCEPT ![t].state = "settled", ![t].result = run.result]
  /\ UNCHANGED <<QueryVars, RegistryVars, timeoutPromise, now, overwritten>>

\* the await of part_002 line 118 returns and the turn is answered
TurnAnswered(t) ==
  /\ t <= Len(turns)
  /\ turns[t].state = "settled"
  /\ turns' = [turns EXCEPT ![t].state = "done"]
  /\ UNCHANGED <<QueryVars, RegistryVars, files, timeoutPromise, now, overwritten>>

LinesNext ==
  \/ \E content \in {"", "hi", "out"} : LineArrives(content)
  \/ \E t \in 1..MaxTurns : Matched(t)
  \/ \E t \in 1..MaxTurns : CreateFileRuns(t)
  \/ \E t \in 1..MaxTurns : TurnAnswered(t)

LinesSpec == LinesInit /\ [][LinesNext]_vars

(***************************************************************************)
(* Properties.                                                             *)
(***************************************************************************)
\* the matches of one pattern from position from on, in the order exec returns them
RECURSIVE MatchesFrom(_, _, _)
MatchesFrom(t, p, from) ==
  LET m == Exec(t, p, from)
  IN IF m.found THEN <<m>> \o MatchesFrom(t, p, m.end + 1) ELSE <<>>

\* the directive blocks the two loops recognize in a text
Recognized(t) == MatchesFrom(t, 1, 1) \o MatchesFrom(t, 2, 1)

\* the positions of a history are strictly increasing
Ascending(h) == \A i \in 1..Len(h) : \A j \in (i + 1)..Len(h) : h[i].at < h[j].at

Returned == pc = "done" /\ toolRegistry = "set"

\* C1: within one call, handlers are invoked, and their renderings listed, in the
\* order in which the opening fences of their directives appear in the text,
\* whatever header form each directive uses.
C1_TextualOrder ==
  /\ Ascending(handlerLog)
  /\ Returned => Ascending(returned.results)

\* C2: at no time are two registry.execute calls of one turn in progress: a
\* directive is started only when every earlier one has its result recorded, and
\* when a bash call has delivered its result its child no longer runs.
C2_OneHandlerAtATime ==
  /\ inFlight <= 1
  /\ (inFlight = 1) = (pc = "await")
  /\ Len(toolResults) + inFlight = Len(order)
  /\ (promise.state = "resolved" => proc.child # "running")
  /\ (pc # "await" => proc.child = "none" /\ shell.timer = "none")

\* C2 witness: a second directive is in progress after a bash directive whose
\* subprocess was spawned has had its result recorded
C2_Witness ==
  /\ pc = "await"
  /\ Len(toolResults) = 1
  /\ toolResults[1].tool = <<"bash">>
  /\ Len(spawnLog) >= 1
  /\ inFlight = 1

\* C3: when the call has returned, exactly one result is recorded for each of the n
\* directive blocks recognized in the text, whatever the outcomes were.
C3_OneResultPerDirective ==
  Returned =>
    LET rec == Recognized(response)
    IN /\ Len(returned.results) = Len(rec)
       /\ \A k \in 1..Len(rec) :
            Cardinality({i \in 1..Len(returned.results) :
                           returned.results[i].at = rec[k].index}) = 1

\* C3 witness: a directive that failed to decode is followed by one that succeeded
C3_Witness ==
  /\ Returned
  /\ Len(returned.results) = 2
  /\ returned.results[1].glyph = "execution error"
  /\ returned.results[2].glyph = "executed successfully"

\* C4: a directive whose payload is no well-formed JSON causes no registry.execute
\* call and exactly one result, an error naming its tool, and the directives after
\* it are still processed.
C4_DecodeFailure ==
  Returned =>
    LET rec == Recognized(response)
    IN \A k \in 1..Len(rec) :
         LET rs == {i \in 1..Len(returned.results) : returned.results[i].at = rec[k].index}
         IN /\ Cardinality(rs) = 1
            /\ ~JsonParses(Trim(rec[k].body)) =>
                 /\ \A i \in rs : /\ returned.results[i].glyph = "execution error"
                                  /\ returned.results[i].tool = rec[k].name
                 /\ \A e \in 1..Len(execLog) : execLog[e].at # rec[k].index

\* C4 witness: a decode failure was recorded and a later directive was executed
C4_Witness ==
  /\ Returned
  /\ \E i \in 1..Len(returned.results) : \E e \in 1..Len(execLog) :
       /\ returned.results[i].glyph = "execution error"
       /\ execLog[e].at > returned.results[i].at

\* C5: for a text in which no directive block is recognized, the call returns the
\* generated text with no trailer and has invoked no handler.
C5_NoDirectiveNoChange ==
  (pc = "done" /\ Recognized(response) = <<>>) =>
    /\ returned.text = response
    /\ ~returned.appended
    /\ returned.results = <<>>
    /\ execLog = <<>>
    /\ handlerLog = <<>>
    /\ spawnLog = <<>>
    /\ files = [p \in Paths |-> Absent]

\* C5 witness: a prose text that matches an intent pattern has been returned
C5_Witness ==
  /\ Returned
  /\ Recognized(response) = <<>>
  /\ response # <<>>
  /\ advisory

\* the text with the header form of every directive exchanged
Twin(t) ==
  [i \in 1..Len(t) |->
     IF i >= 3 /\ i < Len(t) /\ t[i - 2] = FENCE /\ t[i - 1] = KW
       THEN IF t[i] = COLON THEN SP
            ELSE IF t[i] = SP /\ t[i + 1] \in WordTokens THEN COLON ELSE t[i]
       ELSE t[i]]

\* the (position, name, payload) triples recognized in a text
Extracted(t) ==
  LET rec == Recognized(t)
  IN {[at |-> rec[k].index, name |-> rec[k].name, payload |-> Trim(rec[k].body)] :
        k \in 1..Len(rec)}

\* C6: a directive written in the colon form and the same directive written in
\* the space form yield the same name and payload, and the same call of
\* registry.execute.
C6_FormIndependent ==
  Returned =>
    LET twin == Extracted(Twin(response))
    IN /\ Extracted(response) = twin
       /\ Len(Recognized(response)) = Cardinality(twin)
       /\ \A k \in 1..Len(execLog) :
            \E x \in twin :
              /\ x.at = execLog[k].at
              /\ x.name = execLog[k].tool
              /\ JsonParses(x.payload)
              /\ JsonParse(x.payload) = execLog[k].input

\* C6 witness: a text with a colon-form and a space-form directive, both executed
C6_Witness ==
  /\ Returned
  /\ Len(MatchesFrom(response, 1, 1)) = 1
  /\ Len(MatchesFrom(response, 2, 1)) = 1
  /\ Len(execLog) = 2

\* the denylist in upper case
UpperDenylist == [b \in 1..Len(bannedCommands) |-> toUpperCase(bannedCommands[b])]

\* the command contains a denylist entry when both are compared in upper case
OnDenylist(command) ==
  LET upper == toUpperCase(Chars(command))
  IN \E b \in 1..Len(UpperDenylist) : includes(upper, UpperDenylist[b])

\* the input registry.execute was called with for the directive at position at
InputAt(at) == execLog[CHOOSE e \in 1..Len(execLog) : execLog[e].at = at].input

\* C7: a bash call whose command contains a denylist entry, compared
\* case-insensitively, is answered with the security failure and spawns nothing.
C7_DenylistNeverSpawns ==
  /\ (pc = "await" /\ Len(handlerLog) > 0 /\ handlerLog[Len(handlerLog)].at = cur.at
        /\ handlerLog[Len(handlerLog)].tool = "bash") =>
       IF OnDenylist(InputAt(cur.at).command.s)
         THEN /\ promise = Resolved(Failure("Command blocked for security"))
              /\ proc = NoProcess
              /\ shell = NoShell
              /\ \A k \in 1..Len(spawnLog) : spawnLog[k] # InputAt(cur.at).command.s
         ELSE TRUE
  /\ Returned =>
       /\ \A k \in 1..Len(spawnLog) : ~OnDenylist(spawnLog[k])
       /\ \A k \in 1..Len(handlerLog) :
            (handlerLog[k].tool = "bash"
               /\ OnDenylist(InputAt(handlerLog[k].at).command.s)) =>
              \A i \in 1..Len(returned.results) :
                returned.results[i].at = handlerLog[k].at =>
                  /\ returned.results[i].glyph = "failed"
                  /\ returned.results[i].error = "Command blocked for security"

\* C7 witness: a command holding a denylist entry in mixed case has been refused
C7_Witness ==
  /\ pc = "await"
  /\ cur.tool = <<"bash">>
  /\ promise = Resolved(Failure("Command blocked for security"))
  /\ \E k \in 1..Len(execLog) :
       /\ execLog[k].at = cur.at
       /\ OnDenylist(execLog[k].input.command.s)
       /\ toLowerCase(Chars(execLog[k].input.command.s)) # Chars(execLog[k].input.command.s)

\* C8: every bash call that spawned a subprocess eventually delivers a result.
C8_BashReturns == (promise.state = "pending") ~> (promise.state = "resolved")

\* C9: when bash delivers a timed-out result, no process started by the call is
\* still running.
C9_NoOrphanOnTimeout ==
  (promise.state = "resolved" /\ promise.result.error = "Command timed out") =>
    /\ proc.child # "running"
    /\ proc.orphan = "none"

\* C10: when the subprocess ended on its own with exit code c, no signal having
\* been sent to it, the result is a success exactly when c = 0, carries c and the
\* captured stderr, and is never the timed-out failure, however the timer and the
\* close notification interleave.
C10_ExitCodeDecides ==
  (promise.state = "resolved" /\ proc.child = "exited" /\ proc.endedBy = "self"
     /\ ~proc.sigterm) =>
    /\ promise.result.error # "Command timed out"
    /\ promise.result.success = (proc.exitCode = 0)
    /\ promise.result.data = [stdout |-> shell.stdout, stderr |-> shell.stderr,
                              exitCode |-> proc.exitCode, command |-> shell.command]

(***************************************************************************)
(* Properties of the registry.                                             *)
(***************************************************************************)
\* the last operation was a call of execute on a name that has a descriptor
ExecutedOn == call.op = "execute" /\ \E k \in 1..Len(registry) : registry[k].name = call.tool

\* the descriptor registered under the name of the last call
CalledTool == registry[CHOOSE k \in 1..Len(registry) : registry[k].name = call.tool]

ParamsOf(tool) == {tool.parameters[k] : k \in 1..Len(tool.parameters)}

\* the runtime kind of a value equals the declared kind
KindFits(value, type) == value.kind = type

\* C11: a call on a registered tool whose input lacks a required parameter returns
\* a validation failure, runs no handler and changes nothing; an input in which
\* only optional parameters are missing, the others being of the declared kinds,
\* is accepted and the handler runs.
C11_RequiredParameters ==
  (ExecutedOn /\ IsObject(call.input)) =>
    LET ps == ParamsOf(CalledTool)
        missing == \E p \in ps : p.required /\ p.name \notin DOMAIN call.input
        fits == \A p \in ps : p.name \in DOMAIN call.input =>
                               KindFits(call.input[p.name], p.type)
    IN /\ missing => /\ call.out.result = Failure("Invalid input for tool")
                     /\ ~call.out.raised
                     /\ ~call.out.invoked
                     /\ files = call.before
       /\ (~missing /\ fits) => /\ call.out.invoked
                                /\ call.out.result.error # "Invalid input for tool"

\* C11 witness: createFile was called without its required path
C11_Witness ==
  /\ ExecutedOn
  /\ call.tool = "createFile"
  /\ IsObject(call.input)
  /\ "path" \notin DOMAIN call.input
  /\ call.out.result = Failure("Invalid input for tool")

\* C12: a declared parameter present with a kind other than its declared kind makes
\* the call fail without running the handler, and the error names the parameter,
\* its declared kind and the kind of the value supplied.
C12_TypeErrorNamesKinds ==
  (ExecutedOn /\ IsObject(call.input)) =>
    LET ps == ParamsOf(CalledTool)
        wrong == {p \in ps : p.name \in DOMAIN call.input
                               /\ ~KindFits(call.input[p.name], p.type)}
    IN /\ wrong # {} => /\ call.out.result = Failure("Invalid input for tool")
                        /\ ~call.out.invoked
       /\ call.out.expected # "" =>
            \E p \in wrong : /\ call.out.param = p.name
                             /\ call.out.expected = p.type
                             /\ call.out.got = call.input[p.name].kind

\* C13: a call under a name that no descriptor carries, letter for letter, returns
\* the not-found failure; the input is not validated and no handler runs.
C13_ExactNameLookup ==
  (call.op = "execute" /\ \A k \in 1..Len(registry) : registry[k].name # call.tool) =>
    /\ call.out.result = Failure("Tool not found")
    /\ ~call.out.raised
    /\ ~call.out.validated
    /\ ~call.out.invoked
    /\ files = call.before

\* C13 witness: createfile was called while createFile is registered
C13_Witness ==
  /\ call.op = "execute"
  /\ call.tool = "createfile"
  /\ \E k \in 1..Len(registry) : registry[k].name = "createFile"
  /\ call.out.result = Failure("Tool not found")

\* the optional parameters of a tool that declare a default and are absent from
\* an input
Defaulted(tool, input) ==
  {p \in ParamsOf(tool) : ~p.required /\ p.default # undefined /\ p.name \notin DOMAIN input}

\* the input with the declared default supplied for parameter p
WithDefault(input, p) ==
  [k \in DOMAIN input \cup {p.name} |-> IF k = p.name THEN p.default ELSE input[k]]

\* C14: the input handed to the handler holds the declared default of every
\* optional parameter that the raw input leaves out.
C14_DefaultsMerged ==
  (ExecutedOn /\ call.out.invoked /\ IsObject(call.input)) =>
    \A p \in Defaulted(CalledTool, call.input) :
      /\ p.name \in DOMAIN call.out.handed
      /\ call.out.handed[p.name] = p.default

\* C15: for a built-in tool, a call that leaves out an optional parameter has the
\* result and the effect of the call that passes the declared default.
C15_OmittedEqualsDefault ==
  (ExecutedOn /\ call.out.invoked /\ IsObject(call.input)
     /\ \E k \in 1..Len(tools) : tools[k] = CalledTool) =>
    \A p \in Defaulted(CalledTool, call.input) :
      LET explicit == execute(registry,
                              [tool |-> call.tool, input |-> WithDefault(call.input, p)],
                              call.before)
      IN /\ explicit.result = call.out.result
         /\ explicit.fs = files

\* the handler of the called tool throws or rejects, or validation raises
Raises ==
  \/ ~IsObject(call.input) /\ Len(CalledTool.parameters) > 0
  \/ /\ CalledTool.execute \in {"throws", "rejects"}
     /\ ~IsObject(call.input) \/ validateInput(CalledTool, call.input).valid

\* C16: execute never rejects; when the handler throws, its promise rejects or
\* validation raises, the call returns a failure with an error message.
C16_ExecuteNeverThrows ==
  call.op = "execute" =>
    /\ ~call.out.raised
    /\ (ExecutedOn /\ Raises) => /\ ~call.out.result.success
                                 /\ call.out.result.error # ""

\* C16 witness: the handler of the called tool threw
C16_Witness ==
  /\ ExecutedOn
  /\ CalledTool.execute = "throws"
  /\ call.out.invoked
  /\ call.out.result = Failure("Error executing tool")

\* the input restricted to the parameters the tool declares
DeclaredOnly(tool, input) ==
  [k \in DOMAIN input \cap {p.name : p \in ParamsOf(tool)} |-> input[k]]

\* C17: keys the tool does not declare never make the call fail validation, and
\* the handler receives them as they were given.
C17_UnknownKeysPass ==
  (ExecutedOn /\ IsObject(call.input)) =>
    /\ validateInput(CalledTool, DeclaredOnly(CalledTool, call.input)).valid =>
         call.out.invoked
    /\ call.out.invoked => call.out.handed = call.input

\* C17 witness: createFile ran on an input that carries an undeclared key
C17_Witness ==
  /\ ExecutedOn
  /\ IsObject(call.input)
  /\ "mode" \in DOMAIN call.input
  /\ call.out.invoked
  /\ call.out.handed.mode = Num(5)

\* the first descriptor passed to register under a name
FirstRegistered(name) ==
  regLog[Min({k \in 1..Len(regLog) : regLog[k].name = name})]

\* C18: registering a name that is already registered leaves the earlier
\* descriptor in place, so get returns the first descriptor registered under a
\* name.
C18_FirstRegistrationKept ==
  \A k \in 1..Len(registry) :
    mapGet(registry, registry[k].name) = FirstRegistered(registry[k].name)

\* the names of a history of register calls, each at its first registration
RECURSIVE FirstNames(_)
FirstNames(log) ==
  IF log = <<>> THEN <<>>
  ELSE LET front == FirstNames(SubSeq(log, 1, Len(log) - 1))
           name == log[Len(log)].name
       IN IF \E k \in 1..Len(front) : front[k] = name THEN front
          ELSE Append(front, name)

BuiltInNames ==
  <<"listDir", "readFile", "editFile", "deleteFile", "createFile", "fileSearch",
    "grepSearch", "bash">>

\* C19: list and getToolDescriptions give the tools in order of registration, for
\* a constructed registry the eight built-in tools in their fixed order, no name
\* twice; a catalogue line is name(params): description, and the parameters
\* marked with ? are exactly the optional ones.
C19_CatalogueOrderAndForm ==
  /\ call.op \in {"list", "getToolDescriptions"} =>
       /\ Len(call.value) = Len(FirstNames(regLog))
       /\ regLog = tools => Len(call.value) = Len(BuiltInNames)
  /\ call.op = "list" =>
       /\ [k \in 1..Len(call.value) |-> call.value[k].name] = FirstNames(regLog)
       /\ regLog = tools =>
            [k \in 1..Len(call.value) |-> call.value[k].name] = BuiltInNames
       /\ \A i, j \in 1..Len(call.value) :
            call.value[i].name = call.value[j].name => i = j
  /\ call.op = "getToolDescriptions" =>
       \A k \in 1..Len(call.value) :
         LET line == call.value[k]
             tool == registry[k]
         IN /\ line[1] = FirstNames(regLog)[k]
            /\ line[2] = "("
            /\ line[Len(line) - 1] = "): "
            /\ line[Len(line)] = tool.description
            /\ Cardinality({i \in 1..Len(line) : line[i] = "?"})
                 = Cardinality({j \in 1..Len(tool.parameters) :
                                  ~tool.parameters[j].required})
            /\ \A p \in ParamsOf(tool) :
                 \E i \in 3..(Len(line) - 3) :
                   /\ line[i] = p.name
                   /\ IF p.required
                        THEN line[i + 1] = ": " /\ line[i + 2] = p.type
                        ELSE /\ line[i + 1] = "?"
                             /\ line[i + 2] = ": "
                             /\ line[i + 3] = p.type

\* C19 witness: the catalogue of a constructed registry was produced
C19_Witness ==
  /\ call.op = "getToolDescriptions"
  /\ regLog = tools
  /\ Len(call.value) = Len(BuiltInNames)
  /\ \E i \in 1..Len(call.value[7]) : call.value[7][i] = "?"

\* C20: createFile succeeds exactly when nothing is at the path; otherwise it
\* returns the already-exists failure and the filesystem is as it was; on success
\* the path holds the content given and nothing else has changed.
C20_CreateOnlyWhenAbsent ==
  (ExecutedOn /\ call.out.invoked /\ CalledTool = createFileTool) =>
    LET p == call.input.path.s
        content == IF "content" \in DOMAIN call.input THEN call.input.content.s ELSE ""
    IN /\ call.out.result.success = (call.before[p].type = "none")
       /\ call.before[p].type # "none" =>
            /\ call.out.result.error = "File already exists"
            /\ files = call.before
       /\ call.before[p].type = "none" =>
            /\ files[p] = File(content)
            /\ \A q \in Paths \ {p} : files[q] = call.before[q]

\* C20 witness: a second createFile on the path failed and left the content of
\* the first
C20_Witness ==
  /\ ExecutedOn
  /\ call.tool = "createFile"
  /\ call.out.invoked
  /\ call.input = [path |-> A, content |-> Str("out")]
  /\ call.before["a.txt"] = File("hi")
  /\ files["a.txt"] = File("hi")
  /\ call.out.result = Failure("File already exists")

\* C21: deleteFile on a path that holds nothing, or something other than a regular
\* file, returns a failure and changes nothing; on a regular file it removes that
\* file and leaves every other path as it was.
C21_DeleteOnlyRegularFile ==
  (ExecutedOn /\ call.out.invoked /\ CalledTool = deleteFileTool) =>
    LET p == call.input.path.s
    IN IF call.before[p].type = "file"
         THEN /\ call.out.result.success
              /\ files[p] = Absent
              /\ \A q \in Paths \ {p} : files[q] = call.before[q]
         ELSE /\ ~call.out.result.success
              /\ call.out.result.error # ""
              /\ files = call.before

\* C21 witness: a file was deleted while its backup sibling existed
C21_Witness ==
  /\ ExecutedOn
  /\ call.tool = "deleteFile"
  /\ call.out.result.success
  /\ call.before["a.txt"].type = "file"
  /\ files["a.txt"] = Absent
  /\ files["a.txt.backup"].type = "file"

\* C23: editFile on an existing file, with backup left out or true, leaves the
\* previous content in the backup sibling and the new content in the file; with
\* backup false, or when nothing is at the path, no sibling is written and the
\* file receives the new content.
C23_BackupBeforeOverwrite ==
  (ExecutedOn /\ call.out.invoked /\ CalledTool = editFileTool
     /\ call.before[call.input.path.s].type # "directory") =>
    LET p == call.input.path.s
        wanted == "backup" \notin DOMAIN call.input \/ call.input.backup = Bool(TRUE)
    IN /\ call.out.result.success
       /\ files[p] = File(call.input.content.s)
       /\ IF call.before[p].type = "file" /\ wanted
            THEN files["a.txt.backup"] = call.before[p]
            ELSE files["a.txt.backup"] = call.before["a.txt.backup"]

\* C23 witness: an edit with backup left out replaced a content and kept the
\* previous one in the sibling
C23_Witness ==
  /\ ExecutedOn
  /\ call.tool = "editFile"
  /\ call.out.invoked
  /\ "backup" \notin DOMAIN call.input
  /\ call.before["a.txt"] = File("hi")
  /\ files["a.txt"] = File("out")
  /\ files["a.txt.backup"] = File("hi")

\* the text of C22: a colon-form createFile of a.txt with content hi, then a
\* whitespace-form readFile of a.txt
CreateThenRead == ColonBlock("createFile", "pCreate") \o SpaceBlock("readFile", "pRead")

\* C22: for that text, with a.txt absent before the turn, both directives succeed in
\* the turn: the create reports a size of 2 and the read returns the content hi.
C22_CreateThenReadSucceeds ==
  (response = CreateThenRead) =>
    /\ (pc = "await" /\ promise.state = "resolved" /\ cur.tool = <<"createFile">>) =>
         /\ promise.result.success
         /\ promise.result.data.size = 2
    /\ (pc = "await" /\ promise.state = "resolved" /\ cur.tool = <<"readFile">>) =>
         /\ promise.result.success
         /\ promise.result.data.content = "hi"
    /\ pc = "done" =>
         /\ Len(returned.results) = 2
         /\ returned.results[1].tool = <<"createFile">>
         /\ returned.results[1].glyph = "executed successfully"
         /\ returned.results[2].tool = <<"readFile">>
         /\ returned.results[2].glyph = "executed successfully"
         /\ returned.results[2].lines =
              <<Line("Read", "a.txt", 2), Line("Preview", "hi", 0)>>

\* C22 witness: the turn over that text has returned with both results recorded
C22_Witness ==
  /\ Returned
  /\ response = CreateThenRead
  /\ Len(returned.results) = 2
  /\ files["a.txt"] = File("hi")

\* the result the awaited registry.execute call has resolved with
Settled == pc = "await" /\ promise.state = "resolved"

\* C24: every result that registry.execute resolves with, whether it comes from the
\* registry itself or from a handler, has an error text exactly when success is false.
C24_ErrorIffFailure ==
  Settled => (promise.result.error # "" <=> ~promise.result.success)

\* C24 witness: a bash command that exited with code 0 has resolved, after an
\* earlier directive of the same turn failed
C24_Witness ==
  /\ Settled
  /\ cur.tool = <<"bash">>
  /\ promise.result.success
  /\ promise.result.data.exitCode = 0
  /\ Len(toolResults) = 1
  /\ toolResults[1].glyph = "failed"

\* C25: of data and error exactly one is present in a result: data when success is
\* true, error when success is false.
C25_DataXorError ==
  Settled =>
    /\ (promise.result.data # NoData <=> promise.result.success)
    /\ (promise.result.error # "" <=> ~promise.result.success)

\* C26: the advisory is emitted only when no directive was recognized in the text
\* and an intent pattern matches it, never when a directive was recognized (even
\* one whose payload failed to decode), and the text is then returned as generated.
C26_AdvisoryOnlyWithoutDirectives ==
  advisory =>
    /\ pc = "done"
    /\ Recognized(response) = <<>>
    /\ shouldUseTools(response)
    /\ returned.text = response
    /\ ~returned.appended
    /\ returned.results = <<>>

\* C26 witness: a text that matches an intent pattern and whose only directive
\* failed to decode has been returned without the advisory
C26_Witness ==
  /\ Returned
  /\ ~advisory
  /\ shouldUseTools(response)
  /\ Len(returned.results) = 1
  /\ returned.results[1].glyph = "execution error"

\* C29: the rendering of every successful bash result contains the command text,
\* whatever the standard output is, the empty output included.
C29_BashRenderingShowsCommand ==
  \A i \in 1..Len(toolResults) :
    (toolResults[i].tool = <<"bash">> /\ toolResults[i].glyph = "executed successfully") =>
       \E l \in 1..Len(toolResults[i].lines) : toolResults[i].lines[l].label = "Command"

\* the lookup and validation outcome of the last execute call is the one the same
\* name and input have on the registry whatever the earlier calls left behind
SameOnAnyFilesystem ==
  (call.op = "execute") =>
    \A fs \in [Paths -> {Absent, File("hi"), Directory}] :
      LET o == execute(registry, [tool |-> call.tool, input |-> call.input], fs)
      IN /\ o.validated = call.out.validated
         /\ o.invoked = call.out.invoked
         /\ o.param = call.out.param
         /\ o.expected = call.out.expected
         /\ o.got = call.out.got
         /\ ~o.invoked => o.result = call.out.result

\* C30: an execute call leaves the registered names and descriptors as they were,
\* and whether it finds the tool and accepts the input depends only on the name and
\* the input of that call, not on the calls before it.
C30_ExecuteLeavesRegistry ==
  /\ [][call'.op = "execute" => (registry' = registry /\ regLog' = regLog)]_vars
  /\ []SameOnAnyFilesystem

\* C30 witness: a registered handler has thrown and its tool is still registered
C30_Witness ==
  /\ ExecutedOn
  /\ call.tool = "thrower"
  /\ call.out.invoked
  /\ ~call.out.result.success
  /\ Len(registry) > Len(tools)

\* the relevance tier of a basename: 4 equal to the query, 3 beginning with it,
\* 2 containing it, 1 otherwise, letter case set aside
Tier(name, query) ==
  LET n == toLowerCase(name)
      q == toLowerCase(query)
  IN IF n = q THEN 4
     ELSE IF \E rest \in {SubSeq(n, Len(q) + 1, Len(n))} : n = q \o rest THEN 3
     ELSE IF \E a \in 0..Len(n) : \E b \in a..Len(n) : SubSeq(n, a + 1, b) = q THEN 2
     ELSE 1

\* the position at which glob found the file
Discovered(name) == CHOOSE k \in 1..Len(call.input.files) : call.input.files[k] = name

\* the results are the best of the files found: as many as maxResults allows, each a
\* file found, none twice, none ranked below a file left out
BestOfFound ==
  LET r == call.value
      found == call.input.files
  IN /\ Len(r) = Min({Len(found), call.input.maxResults})
     /\ \A i \in 1..Len(r) : \E k \in 1..Len(found) : found[k] = r[i].name
     /\ \A i, j \in 1..Len(r) : i # j => r[i].name # r[j].name
     /\ \A k \in 1..Len(found) :
          (\A i \in 1..Len(r) : r[i].name # found[k]) =>
             \A i \in 1..Len(r) :
                Tier(r[i].name, call.input.query) >= Tier(found[k], call.input.query)

\* the tiers carry the scores 100, 80, 60 and at most 40, and descend along the
\* results
TiersDescend ==
  LET r == call.value
      q == call.input.query
  IN /\ \A i \in 1..Len(r) :
          CASE Tier(r[i].name, q) = 4 -> r[i].relevance = 100
            [] Tier(r[i].name, q) = 3 -> r[i].relevance = 80
            [] Tier(r[i].name, q) = 2 -> r[i].relevance = 60
            [] OTHER -> r[i].relevance <= 40
     /\ \A i, j \in 1..Len(r) :
          i < j => Tier(r[i].name, q) >= Tier(r[j].name, q)

\* query main over main.ts, domain.ts and remainder.txt ranks main.ts first
MainFirst ==
  LET main == <<"m", "a", "i", "n", ".", "t", "s">>
      three == {main, <<"d", "o", "m", "a", "i", "n", ".", "t", "s">>,
                <<"r", "e", "m", "a", "i", "n", "d", "e", "r", ".", "t", "x", "t">>}
  IN (/\ call.input.query = <<"m", "a", "i", "n">>
      /\ {call.input.files[k] : k \in 1..Len(call.input.files)} = three)
       => call.value[1].name = main

\* C27 as amended: fileSearch orders its results by descending relevance tier,
\* compared case-insensitively on the basename (100, 80, 60, at most 40); results
\* of equal score stay in discovery order, and within the fallback tier a higher
\* overlap score ranks first; main over main.ts, domain.ts and remainder.txt ranks
\* main.ts first.
C27_RankedByScore ==
  (call.op = "fileSearch") =>
    /\ BestOfFound
    /\ TiersDescend
    /\ MainFirst
    /\ \A i, j \in 1..Len(call.value) :
         i < j =>
           /\ call.value[i].relevance >= call.value[j].relevance
           /\ call.value[i].relevance = call.value[j].relevance =>
                Discovered(call.value[i].name) < Discovered(call.value[j].name)

\* C27 as stated: results of equal tier stay in discovery order.
C27_EqualTierInDiscoveryOrder ==
  (call.op = "fileSearch") =>
    /\ TiersDescend
    /\ \A i, j \in 1..Len(call.value) :
         (i < j /\ Tier(call.value[i].name, call.input.query)
                    = Tier(call.value[j].name, call.input.query)) =>
            Discovered(call.value[i].name) < Discovered(call.value[j].name)

\* C27 witness: three files of three tiers, found in ascending order of tier with
\* an upper-case query, are returned in descending order
C27_Witness ==
  /\ call.op = "fileSearch"
  /\ call.input.query = <<"M", "a", "i", "n">>
  /\ Len(call.value) = 3
  /\ call.input.files[1] = call.value[3].name
  /\ call.input.files[3] = call.value[1].name
  /\ call.value[1].relevance = 100
  /\ call.value[2].relevance = 80
  /\ call.value[3].relevance = 60

\* position a is before position b in the order of the scan
Before(a, b) == a[1] < b[1] \/ (a[1] = b[1] /\ a[2] < b[2])

\* the lines of the readable files, and those among them that hold the pattern
LinesOf(found) ==
  {p \in (1..Len(found)) \X (1..2) :
     found[p[1]].readable /\ p[2] <= Len(found[p[1]].lines)}
HitsOf(found) == {p \in LinesOf(found) : found[p[1]].lines[p[2]] = "hi"}

\* C28: for maxResults of at least 1 grepSearch returns at most maxResults matches,
\* the first ones in scan order, reads no line after the one that completed the
\* count, skips a file that cannot be read, still scans the files behind it, and
\* succeeds.
C28_StopsAtMaxResults ==
  (call.op = "grepSearch") =>
    LET r == call.value
        found == call.input.files
        maxResults == call.input.maxResults
        visited == {call.out.visited[k] : k \in 1..Len(call.out.visited)}
        returned_ == {<<r[k].file, r[k].line>> : k \in 1..Len(r)}
    IN /\ call.out.success
       /\ Len(r) <= maxResults
       /\ Len(r) = Min({maxResults, Cardinality(HitsOf(found))})
       /\ Cardinality(returned_) = Len(r)
       /\ returned_ \subseteq HitsOf(found)
       /\ \A h \in HitsOf(found) \ returned_ : \A p \in returned_ : Before(p, h)
       /\ \A i, j \in 1..Len(r) :
            i < j => Before(<<r[i].file, r[i].line>>, <<r[j].file, r[j].line>>)
       /\ visited \subseteq LinesOf(found)
       /\ IF Len(r) = maxResults
            THEN visited = {p \in LinesOf(found) :
                              p = <<r[Len(r)].file, r[Len(r)].line>>
                                \/ Before(p, <<r[Len(r)].file, r[Len(r)].line>>)}
            ELSE visited = LinesOf(found)

\* C28 witness: the count was completed in a file that follows one that cannot be
\* read, on a line that is not the last of the file
C28_Witness ==
  /\ call.op = "grepSearch"
  /\ call.input.maxResults = 1
  /\ Len(call.input.files) = 2
  /\ ~call.input.files[1].readable
  /\ call.input.files[2].lines = <<"hi", "hi">>
  /\ Len(call.value) = 1
  /\ call.out.visited = << <<2, 1>> >>

\* C31: once the 60-second timeout has fired and the turn has been reported as
\* failed, no registry.execute call and no handler of that turn is started.
C31_NothingStartsAfterTimeout ==
  [][timeoutPromise = "rejected" => (execLog' = execLog /\ handlerLog' = handlerLog)]_vars

\* the turns whose createFile call has run
Ran == {t \in 1..Len(turns) : turns[t].state \in {"settled", "done"}}

\* C32: when two turns are in progress at once and each runs createFile on the same
\* fresh path, exactly one of the calls succeeds and the file holds the content of
\* that call.
C32_OneCreateWins ==
  /\ Cardinality({t \in Ran : turns[t].result.success}) <= 1
  /\ Ran # {} =>
       \E t \in Ran : /\ turns[t].result.success
                       /\ files["a.txt"] = File(turns[t].content)
  /\ \A t \in Ran : ~turns[t].result.success =>
       turns[t].result.error = "File already exists"

\* C32 witness: the turn of the second line created the file while the turn of the
\* first line, with another content, was still in progress, and the first then failed
C32_Witness ==
  /\ Len(turns) = 2
  /\ turns[1].state = "settled"
  /\ ~turns[1].result.success
  /\ turns[2].state = "done"
  /\ turns[2].result.success
  /\ turns[1].content # turns[2].content
  /\ files["a.txt"] = File(turns[2].content)

(***************************************************************************)
(* C33: one result per spawned bash call.                                  *)
(***************************************************************************)
\* a bash call that spawned (or tried to spawn) its subprocess is awaited
Spawned == pc = "await" /\ proc.child # "none"

\* the result of a call is settled once: a later notification leaves it as it is
FirstNotificationDecides ==
  [][(promise.state = "resolved" /\ promise'.state = "resolved") => promise' = promise]_vars

\* with the result delivered the timer is not armed, and from then on the call sends
\* no termination signal
NoSignalAfterResult ==
  /\ [](promise.state = "resolved" => shell.timer # "armed")
  /\ [][(promise.state = "resolved" /\ pc = "await" /\ pc' = "await")
          => (shell'.killed = shell.killed /\ proc'.sigterm = proc.sigterm)]_vars

\* the parts of C33 that limit the results to one
AtMostOneResult == FirstNotificationDecides /\ NoSignalAfterResult

\* C33: for every bash invocation that spawns a subprocess exactly one result is
\* delivered: the call does deliver a result, the first of the close and error
\* notifications decides it, and after it the timer is cancelled and no termination
\* signal is sent.
C33_ExactlyOneResult ==
  /\ AtMostOneResult
  /\ [](Spawned => <>(promise.state = "resolved"))

(***************************************************************************)
(* editFile with the clock: the backup sibling is named after Date.now().  *)
(***************************************************************************)
\* line 199: the path of the backup taken at millisecond t
backupPath(resolvedPath, t) == resolvedPath \o ".backup." \o ToString(t)

EditPaths == {"a.txt"} \cup {backupPath("a.txt", t) : t \in 0..MaxClock}

\* editFile going on to the write although the copy threw
editFileAt_CopyErrorIgnored(input, fs, t, refused) ==
  LET filePath == input.path.s
      content == input.content.s
  IN IF isDirectory(fs, filePath)
       THEN [result |-> Failure("Error editing file"), fs |-> fs]
       ELSE [result |-> Success([path |-> filePath, size |-> StrLen(content)]),
             fs |-> [fs EXCEPT ![filePath] = File(content)]]

\* editFileTool.execute at millisecond t; refused: copyFileSync throws for a reason
\* of the operating system (no permission, no space).  copyFileSync and
\* writeFileSync throw on a directory as well, and whatever throws is caught at
\* line 221.
editFileAt(input, fs, t, refused) ==
  LET filePath == input.path.s
      content == input.content.s
      backup == NotFalse(input, "backup")
      copies == existsSync(fs, filePath) /\ backup
      copied == [fs EXCEPT ![backupPath(filePath, t)] = fs[filePath]]
  IN IF copies /\ (isDirectory(fs, filePath) \/ refused)
       THEN [result |-> Failure("Error editing file"), fs |-> fs]
     ELSE IF isDirectory(fs, filePath)
       THEN [result |-> Failure("Error editing file"), fs |-> fs]
     ELSE [result |-> Success([path |-> filePath, size |-> StrLen(content)]),
           fs |-> [(IF copies THEN copied ELSE fs) EXCEPT ![filePath] = File(content)]]

EditInputs ==
  {[path |-> Str("a.txt"), content |-> Str(c)] : c \in {"hi", "out"}}
    \cup {[path |-> Str("a.txt"), content |-> Str(c), backup |-> Bool(b)] :
            c \in {"hi", "out"}, b \in BOOLEAN}

EditInit ==
  /\ response = <<>>
  /\ toolRegistry = "set"
  /\ files \in {[p \in EditPaths |-> IF p = "a.txt" THEN e ELSE Absent] :
                  e \in {Absent, File("hi"), Directory}}
  /\ pc = "registry"
  /\ pat = 1
  /\ lastIndex = 1
  /\ toolExecuted = FALSE
  /\ toolResults = <<>>
  /\ promise = NoPromise
  /\ cur = NoCall
  /\ shell = NoShell
  /\ proc = NoProcess
  /\ advisory = FALSE
  /\ returned = NotReturned
  /\ order = <<>>
  /\ execLog = <<>>
  /\ handlerLog = <<>>
  /\ spawnLog = <<>>
  /\ inFlight = 0
  /\ registry = tools
  /\ regLog = tools
  /\ call = NoOperation
  /\ timeoutPromise = "none"
  /\ turns = <<>>
  /\ now = 0
  /\ overwritten = {}

\* Date.now() moves on
Tick ==
  /\ now < MaxClock
  /\ now' = now + 1
  /\ UNCHANGED <<QueryVars, RegistryVars, files, timeoutPromise, turns, overwritten>>

\* one call of editFileTool.execute; overwritten collects the contents that calls
\* with backup enabled replaced
EditFile(input, refused) ==
  LET done == editFileAt(input, files, now, refused)
  IN /\ files' = done.fs
     /\ call' = [op |-> "editFile", input |-> input, before |-> files,
                 result |-> done.result, refused |-> refused, at |-> now]
     /\ overwritten' =
          IF done.result.success /\ NotFalse(input, "backup") /\ isFile(files, "a.txt")
            THEN overwritten \cup {files["a.txt"].content}
            ELSE overwritten
     /\ UNCHANGED <<QueryVars, registry, regLog, timeoutPromise, turns, now>>

EditNext ==
  \/ Tick
  \/ \E input \in EditInputs, refused \in BOOLEAN : EditFile(input, refused)

EditSpec == EditInit /\ [][EditNext]_vars

\* the contents held by the backup siblings of a.txt
BackedUp ==
  {files[backupPath("a.txt", t)].content :
     t \in {u \in 0..MaxClock : isFile(files, backupPath("a.txt", u))}}

\* C34: after any sequence of successful editFile calls with backup enabled on one
\* path, every content that was overwritten is still held by some backup sibling,
\* two edits within one tick of the clock included.
C34_EveryVersionBackedUp == overwritten \subseteq BackedUp

\* the backup copy of the recorded call was attempted and failed
CopyFailed ==
  /\ call.op = "editFile"
  /\ NotFalse(call.input, "backup")
  /\ existsSync(call.before, "a.txt")
  /\ (call.refused \/ isDirectory(call.before, "a.txt"))

\* C35: when the backup copy of editFile fails, with backup enabled and the target
\* present, the call returns a failure and the target is as it was.
C35_NoWriteWithoutSnapshot ==
  CopyFailed => (~call.result.success /\ files["a.txt"] = call.before["a.txt"])

\* C35 witness: the copy of a regular file was refused, the call for another content
\* failed and the file still holds what it held
C35_Witness ==
  /\ CopyFailed
  /\ call.refused
  /\ call.before["a.txt"] = File("hi")
  /\ call.input.content = Str("out")
  /\ ~call.result.success
  /\ files["a.txt"] = File("hi")

(***************************************************************************)
(* Turns over texts whose first directive carries a JSON payload that is   *)
(* no object.                                                              *)
(***************************************************************************)
NonObjectPayloads == {"pNull", "pFive", "pStr", "pTrue", "pArr"}

\* a directive for a built-in tool with such a payload, in either header form,
\* followed by at most one more segment
PayloadTexts ==
  {ColonBlock(name, p) \o t :
     name \in {"createFile", "readFile", "bash"}, p \in NonObjectPayloads, t \in Texts(1)}
    \cup {SpaceBlock(name, p) \o t :
            name \in {"createFile", "readFile", "bash"}, p \in NonObjectPayloads,
            t \in Texts(1)}

PayloadInit ==
  /\ response \in PayloadTexts
  /\ toolRegistry = "set"
  /\ TurnStart
  /\ timeoutPromise = "none"

PayloadSpec == PayloadInit /\ [][RegisteredNext]_vars

\* the positions of the directives whose decoded payload is no object
NonObjectCalls == {execLog[k].at : k \in {j \in 1..Len(execLog) : ~IsObject(execLog[j].input)}}

\* C36: a directive whose payload is well-formed JSON but no object (null, a number,
\* a string, a boolean, an array) runs no built-in handler and gets a failure result,
\* and the directives after it are processed: when the call has returned every
\* directive recognized in the text has exactly one result.
C36_NonObjectPayloadFails ==
  /\ \A h \in 1..Len(handlerLog) : handlerLog[h].at \notin NonObjectCalls
  /\ \A i \in 1..Len(toolResults) :
       toolResults[i].at \in NonObjectCalls => toolResults[i].glyph = "failed"
  /\ (Settled /\ cur.at \in NonObjectCalls) => ~promise.result.success
  /\ Returned =>
       LET rec == Recognized(response)
       IN \A k \in 1..Len(rec) :
            Cardinality({i \in 1..Len(returned.results) :
                           returned.results[i].at = rec[k].index}) = 1

\* C36 witness: the payload null of a createFile directive was refused without a
\* handler, and the createFile directive after it created the file
C36_Witness ==
  /\ Returned
  /\ response = ColonBlock("createFile", "pNull") \o ColonBlock("createFile", "pCreate")
  /\ Len(returned.results) = 2
  /\ returned.results[1].glyph = "failed"
  /\ returned.results[2].glyph = "executed successfully"
  /\ Len(handlerLog) = 1
  /\ files["a.txt"] = File("hi")

(***************************************************************************)
(* C37: the two header patterns share no match.                            *)
(***************************************************************************)
\* no position occurs twice in a history
OncePerPosition(h) == \A i \in 1..Len(h) : \A j \in (i + 1)..Len(h) : h[i].at # h[j].at

\* C37: no fenced block is matched by both header patterns: no position of the text
\* starts a match of each, and within one call no directive block has two
\* registry.execute calls or two renderings.
C37_OneMatchPerBlock ==
  /\ pc = "start" =>
       \A i \in 1..Len(response) :
         ~(MatchAt(response, 1, i).found /\ MatchAt(response, 2, i).found)
  /\ OncePerPosition(execLog)
  /\ OncePerPosition(toolResults)
  /\ \A i \in 1..Len(order) : \A j \in (i + 1)..Len(order) : order[i] # order[j]

\* C37 witness: a text with a colon-form block and a space-form block has been
\* processed, with one call and one rendering for each
C37_Witness ==
  /\ Returned
  /\ Len(MatchesFrom(response, 1, 1)) = 1
  /\ Len(MatchesFrom(response, 2, 1)) = 1
  /\ Len(execLog) = 2
  /\ Len(returned.results) = 2
  /\ returned.results[1].at # returned.results[2].at

(***************************************************************************)
(* A client with or without a registry, on texts of at most two segments.  *)
(***************************************************************************)
ClientInit ==
  /\ response \in Texts(2)
  /\ toolRegistry \in {"set", "null"}
  /\ TurnStart
  /\ timeoutPromise = "none"

ClientSpec == ClientInit /\ [][Next]_vars

\* C38: with no registry set on the client, queryAIWithTools returns the generated
\* text unchanged, with nothing appended, and no registry.execute call, handler,
\* subprocess or change of the filesystem happens, whatever directives the text has.
C38_NoRegistryNoHandlers ==
  toolRegistry = "null" =>
    /\ pc \in {"start", "done"}
    /\ execLog = <<>>
    /\ handlerLog = <<>>
    /\ spawnLog = <<>>
    /\ toolResults = <<>>
    /\ files = [p \in Paths |-> Absent]
    /\ pc = "done" => returned = [text |-> response, appended |-> FALSE, results |-> <<>>]

\* C38 witness: a text with a createFile and a bash directive, both well formed, was
\* returned as it is by a client without a registry
C38_Witness ==
  /\ toolRegistry = "null"
  /\ pc = "done"
  /\ response = ColonBlock("createFile", "pCreate") \o SpaceBlock("bash", "pLs")
  /\ returned.text = response
  /\ files["a.txt"] = Absent

(***************************************************************************)
(* C39: the handlers that only read.                                       *)
(***************************************************************************)
ReadOnlyTools == {"readFile", "listDir", "fileSearch", "grepSearch"}

\* C39: a call of readFile, listDir, fileSearch or grepSearch leaves every entry of
\* the filesystem as it was, whatever its input and whether it succeeds or fails.
C39_ReadersChangeNothing ==
  (call.op = "execute" /\ call.tool \in ReadOnlyTools) => files = call.before

\* C39 witness: readFile returned the content of an existing file and the filesystem
\* is the one before the call
C39_Witness ==
  /\ call.op = "execute"
  /\ call.tool = "readFile"
  /\ call.out.invoked
  /\ call.out.result.success
  /\ call.before["a.txt"] = File("hi")
  /\ files = call.before

====
